---- MODULE Spec2Model ----
(***************************************************************************)
(* CloudCore SaaS compliance model: the domain entities (Incident, Risk,   *)
(* ContinuityScenario, Service, KPI) with their derived metrics, and the   *)
(* managers that aggregate them (IncidentManager, SLAManager,              *)
(* AvailabilityManager, RecoverySimulator, GovernanceDashboard).           *)
(*                                                                         *)
(* Units.  Python floats are modelled by exact scaled integers:            *)
(*   time            ticks, TicksPerSecond ticks to the second             *)
(*   durations       ticks (hours = ticks / TicksPerHour)                  *)
(*   money           cents                                                 *)
(*   probabilities   1/ProbScale                                           *)
(*   effectiveness   1/EffScale  (inputs), 1/Eff4 (round(.., 4) results)   *)
(*   percentages     1/100 of a percent (round(.., 2) results), 1/Pct4     *)
(*                   (round(.., 4) results), 1/Pct1 (round(.., 1) results) *)
(* Where an unrounded float is compared (the annual mean against its       *)
(* target, the recovery time against the RTO ceiling) the float is         *)
(* modelled bit for bit as IEEE-754 binary64.                              *)
(* An optional value (Python None) is the empty sequence, a present value  *)
(* x is <<x>>.                                                             *)
(* The random module is one deterministic generator fixed by its seed; an  *)
(* incident identifier is the prefix followed by its decimal digits.       *)
(***************************************************************************)

EXTENDS Integers, Sequences, FiniteSets, TLC

VARIABLES
    now,          \* the clock datetime.now() reads
    inc,          \* a stand-alone Incident (main.py's incident_demo), None before construction
    counter,      \* IncidentManager._counter
    incidents,    \* IncidentManager.incidents
    evaluations,  \* SLAManager.evaluations
    result,       \* what the last call returned (or raised)
    risk,         \* a Risk, None before construction
    scenarios,    \* RecoverySimulator.scenarios
    avail,        \* an AvailabilityManager, None before construction
    service,      \* a Service, None before construction
    rto_hours,    \* RecoverySimulator.rto_hours, a float
    rto_args,     \* the arguments RecoverySimulator was constructed with
    kpis,         \* GovernanceDashboard.kpis
    rng,          \* the generator of the random module: its seed, numbers drawn
    fixtures      \* history: the last two fixtures generated, each with the generator it started from

vars == <<now, inc, counter, incidents, evaluations, result, risk, scenarios,
          avail, service, rto_hours, rto_args, kpis, rng, fixtures>>

-----------------------------------------------------------------------------
(* Bounds of the model *)

\* clock resolution (datetime has 10^6 ticks to the second)
TicksPerSecond == 10
\* hours between base_time (2024-01-01 08:00, tick 0) and the start of the run
StartHours == 1000
\* number of later clock readings the model observes
MaxClock == 2
MaxIncidents == 2
MaxNotes == 1
MaxEvaluations == 1
\* longest run of one incident in an evaluate_batch argument
MaxRepeat == 19
MaxControls == 2
MaxScenarios == 2
\* most minutes of downtime registered with an AvailabilityManager
MaxDowntime == 600
MaxMonths == 2
MaxEvents == 2
MaxKpis == 4
\* KPIs of a large dashboard
MaxBoardKpis == 12

-----------------------------------------------------------------------------
(* Helpers *)

None == << >>
Some(x) == <<x>>

Max(a, b) == IF a >= b THEN a ELSE b
Abs(a) == IF a >= 0 THEN a ELSE -a

\* round(n / d) to the nearest integer, ties to even, for d > 0 (Python round)
RoundDiv(n, d) ==
    LET q == n \div d
        r == n % d
    IN  IF 2 * r < d THEN q
        ELSE IF 2 * r > d THEN q + 1
        ELSE IF q % 2 = 0 THEN q ELSE q + 1

\* round(a * b / d) for a, b >= 0 and d > 0, computed without a * b
MulDivRound(a, b, d) ==
    LET n == (a % d) * b
        q == (a \div d) * b + n \div d
        r == n % d
    IN  IF 2 * r < d THEN q
        ELSE IF 2 * r > d THEN q + 1
        ELSE IF q % 2 = 0 THEN q ELSE q + 1

\* round(n / d * 100^k) for d > 0, digit pair by digit pair
RECURSIVE PctRound(_, _, _)
PctRound(n, d, k) ==
    IF k = 0 THEN RoundDiv(n, d)
    ELSE (n \div d) * 100^k + PctRound(100 * (n % d), d, k - 1)

RECURSIVE Pow(_, _)
Pow(b, n) == IF n = 0 THEN 1 ELSE b * Pow(b, n - 1)

\* units
SecondsPerHour == 3600
TicksPerHour == SecondsPerHour * TicksPerSecond
CentsPerUSD == 10^2
ProbScale == 10^3
EffScale == 10^3
Eff4 == 10^4
HourScale == 10^2

RECURSIVE SumSeq(_)
SumSeq(s) == IF s = << >> THEN 0 ELSE Head(s) + SumSeq(Tail(s))

RECURSIVE Rep(_, _)
Rep(x, n) == IF n = 0 THEN << >> ELSE <<x>> \o Rep(x, n - 1)

-----------------------------------------------------------------------------
(* Python floats where a comparison decides a verdict: IEEE-754 binary64. *)
(* A natural number beyond the integer range is a little-endian sequence  *)
(* of limbs in base LimbBase; a float is m * 2^e with m such a number of  *)
(* at most Mantissa bits.                                                 *)

LimbBase == 2^15
LimbBits == 15
Mantissa == 53

RECURSIVE BNorm(_)
BNorm(a) ==
    IF a # << >> /\ a[Len(a)] = 0 THEN BNorm(SubSeq(a, 1, Len(a) - 1)) ELSE a

RECURSIVE BFromInt(_)
BFromInt(n) ==
    IF n = 0 THEN << >> ELSE <<n % LimbBase>> \o BFromInt(n \div LimbBase)

RECURSIVE BToInt(_)
BToInt(a) == IF a = << >> THEN 0 ELSE Head(a) + LimbBase * BToInt(Tail(a))

RECURSIVE BAddC(_, _, _)
BAddC(a, b, c) ==
    IF a = << >> /\ b = << >> THEN BFromInt(c)
    ELSE LET x == (IF a = << >> THEN 0 ELSE Head(a))
                  + (IF b = << >> THEN 0 ELSE Head(b)) + c
         IN  <<x % LimbBase>>
             \o BAddC(IF a = << >> THEN a ELSE Tail(a),
                      IF b = << >> THEN b ELSE Tail(b), x \div LimbBase)

BAdd(a, b) == BNorm(BAddC(a, b, 0))

\* a * k for 0 <= k <= LimbBase
RECURSIVE BMulC(_, _, _)
BMulC(a, k, c) ==
    IF a = << >> THEN BFromInt(c)
    ELSE LET x == Head(a) * k + c
         IN  <<x % LimbBase>> \o BMulC(Tail(a), k, x \div LimbBase)

BMul(a, k) == BNorm(BMulC(a, k, 0))

\* a divided by k for 0 < k <= LimbBase: quotient q and remainder r
RECURSIVE BDivR(_, _, _)
BDivR(a, k, r) ==
    IF a = << >> THEN [q |-> << >>, r |-> r]
    ELSE LET x == r * LimbBase + a[Len(a)]
             rest == BDivR(SubSeq(a, 1, Len(a) - 1), k, x % k)
         IN  [q |-> Append(rest.q, x \div k), r |-> rest.r]

BDiv(a, k) == LET d == BDivR(a, k, 0) IN [q |-> BNorm(d.q), r |-> d.r]

\* a <= b, for a and b without leading zero limbs
RECURSIVE BLe(_, _)
BLe(a, b) ==
    IF Len(a) # Len(b) THEN Len(a) < Len(b)
    ELSE IF a = << >> THEN TRUE
    ELSE IF a[Len(a)] # b[Len(b)] THEN a[Len(a)] < b[Len(b)]
    ELSE BLe(SubSeq(a, 1, Len(a) - 1), SubSeq(b, 1, Len(b) - 1))

RECURSIVE Bits(_)
Bits(n) == IF n = 0 THEN 0 ELSE 1 + Bits(n \div 2)

BitLen(a) ==
    IF a = << >> THEN 0 ELSE LimbBits * (Len(a) - 1) + Bits(a[Len(a)])

\* a * 2^s
BShl(a, s) ==
    IF a = << >> THEN a
    ELSE BMul([i \in 1..(s \div LimbBits) |-> 0] \o a, 2^(s % LimbBits))

\* floor(a / 2^s), with sticky telling whether anything nonzero was dropped
RECURSIVE BShr(_, _, _)
BShr(a, s, sticky) ==
    IF s = 0 THEN [q |-> a, sticky |-> sticky]
    ELSE LET c == IF s < LimbBits THEN s ELSE LimbBits
             d == BDiv(a, 2^c)
         IN  BShr(d.q, s - c, sticky \/ d.r # 0)

\* a / 2^s (s >= 1) rounded to the nearest integer, ties to even; sticky
\* says that the exact value lies strictly above a
BShrRound(a, s, sticky) ==
    LET h == BShr(a, s - 1, sticky)
        d == BDiv(h.q, 2)
        up == d.r = 1 /\ (h.sticky \/ (d.q # << >> /\ Head(d.q) % 2 = 1))
    IN  IF up THEN BAdd(d.q, <<1>>) ELSE d.q

\* the float nearest to n * 2^e (ties to even)
FRound(n, e, sticky) ==
    LET L == BitLen(n)
    IN  IF L <= Mantissa THEN [m |-> n, e |-> e]
        ELSE [m |-> BShrRound(n, L - Mantissa, sticky), e |-> e + (L - Mantissa)]

\* the float nearest to p / q for a natural p and 0 < q <= LimbBase: what a
\* decimal literal denotes, and int / int (the quotient keeps 5 limbs of
\* extra bits before it is rounded)
FromRatio(p, q) ==
    LET d == BDiv(BShl(p, 5 * LimbBits), q)
    IN  FRound(d.q, 0 - 5 * LimbBits, d.r # 0)

FromInt(n) == [m |-> BFromInt(n), e |-> 0]

\* x + y
FAdd(x, y) ==
    LET e == 0 - Max(0 - x.e, 0 - y.e)
    IN  FRound(BAdd(BShl(x.m, x.e - e), BShl(y.m, y.e - e)), e, FALSE)

\* x / k for an integer 0 < k <= LimbBase

FDivInt(x, k) ==
    LET d == BDiv(BShl(x.m, 5 * LimbBits), k)
    IN  FRound(d.q, x.e - 5 * LimbBits, d.r # 0)

\* x <= y
FLe(x, y) ==
    LET e == 0 - Max(0 - x.e, 0 - y.e)
    IN  BLe(BShl(x.m, x.e - e), BShl(y.m, y.e - e))

\* round(x, digits) as the integer x * scale rounded half to even, for
\* scale = 10^digits <= LimbBase and a float x >= 0
FRoundDec(x, scale) ==
    LET n == BMul(x.m, scale)
    IN  IF x.e >= 0 THEN BToInt(BShl(n, x.e))
        ELSE BToInt(BShrRound(n, 0 - x.e, FALSE))

-----------------------------------------------------------------------------
(* domain/incident.py *)

Severity == {"CRITICAL", "HIGH", "MEDIUM", "LOW"}

OPEN == "Abierto"
RESOLVED == "Resuelto"
CLOSED == "Cerrado"

SLA_HOURS(sev) ==
    CASE sev = "CRITICAL" -> 1
      [] sev = "HIGH"     -> 4
      [] sev = "MEDIUM"   -> 8
      [] sev = "LOW"      -> 24

PENALTY_USD_PER_HOUR(sev) ==
    CASE sev = "CRITICAL" -> 5000
      [] sev = "HIGH"     -> 2000
      [] sev = "MEDIUM"   -> 500
      [] sev = "LOW"      -> 100

\* Incident.__init__: status OPEN, created_at = datetime.now(), no resolution
NewIncident(id, sev, t) ==
    [incident_id |-> id, severity |-> sev, status |-> OPEN,
     created_at |-> t, resolved_at |-> None, notes |-> << >>]

\* Incident.resolve(resolved_at): arg is None (use the clock) or <<t>>
IncResolve(self, arg, clock) ==
    [self EXCEPT !.resolved_at = IF arg # None THEN arg ELSE Some(clock),
                !.status = RESOLVED]

\* the age of an incident not yet resolved, read from the clock
resolution_time_hours_to_now(self) ==
    IF self.resolved_at # None
    THEN Some(self.resolved_at[1] - self.created_at)
    ELSE Some(now - self.created_at)

\* duration in ticks, or None while unresolved
resolution_time_hours(self) ==
    IF self.resolved_at # None
    THEN Some(self.resolved_at[1] - self.created_at)
    ELSE None

sla_limit_hours(self) == SLA_HOURS(self.severity)

meets_sla_lt(self) ==
    LET t == resolution_time_hours(self)
    IN  IF t = None THEN FALSE
        ELSE t[1] < sla_limit_hours(self) * TicksPerHour

meets_sla(self) ==
    LET t == resolution_time_hours(self)
    IN  IF t = None THEN FALSE
        ELSE t[1] <= sla_limit_hours(self) * TicksPerHour

excess_hours_unclamped(self) ==
    LET t == resolution_time_hours(self)
    IN  IF t = None THEN 0
        ELSE t[1] - sla_limit_hours(self) * TicksPerHour

\* excess over the SLA ceiling, in ticks
excess_hours(self) ==
    LET t == resolution_time_hours(self)
    IN  IF t = None THEN 0
        ELSE Max(0, t[1] - sla_limit_hours(self) * TicksPerHour)

\* round(excess_hours * rate, 2), in cents
penalty_usd(self) ==
    RoundDiv(excess_hours(self) * PENALTY_USD_PER_HOUR(self.severity),
             (SecondsPerHour \div CentsPerUSD) * TicksPerSecond)

\* Incident.to_dict: the fields derived from the times; hours in 1/Hour4.
\* resolution_time_h tests the float for truth, so 0.0 hours serializes as None
to_dict(self) ==
    LET t == resolution_time_hours(self)
    IN  [status            |-> self.status,
         resolved_at       |-> self.resolved_at,
         resolution_time_h |-> IF t # None /\ t[1] # 0
                               THEN Some(PctRound(t[1], TicksPerHour, 2))
                               ELSE None,
         sla_limit_h       |-> sla_limit_hours(self),
         meets_sla         |-> meets_sla(self),
         excess_h          |-> PctRound(excess_hours(self), TicksPerHour, 2),
         penalty_usd       |-> penalty_usd(self)]

-----------------------------------------------------------------------------
(* The clock, and a stand-alone Incident *)

BaseTime == 0
StartTime == BaseTime + StartHours * TicksPerHour

\* the k-th clock reading: start, +1 h, +1 h and a tick, +2 h and a tick, ...
ClockValues ==
    {StartTime + ((k + 1) \div 2) * TicksPerHour + (k \div 2) : k \in 0..MaxClock}

Tick ==
    /\ \E t \in ClockValues : t > now /\ now' = t
    /\ UNCHANGED <<inc, counter, incidents, evaluations, result, risk, scenarios,
                 avail, service, rto_hours, rto_args, kpis,
                 rng, fixtures>>

\* Incident(...): the constructor
Incident_init ==
    /\ inc = None
    /\ \E sev \in Severity : inc' = Some(NewIncident(0, sev, now))
    /\ result' = [op |-> "Incident"]
    /\ UNCHANGED <<now, counter, incidents, evaluations, risk, scenarios,
                 avail, service, rto_hours, rto_args, kpis,
                 rng, fixtures>>

\* the explicit resolved_at arguments tried on an incident: around its creation
\* and around its SLA ceiling
ResolveArgs(i) ==
    LET lim == sla_limit_hours(i) * TicksPerHour
    IN  {i.created_at + d : d \in {-TicksPerHour, 0, lim - 1, lim, lim + 1, 2 * lim}}

\* inc.resolve() and inc.resolve(resolved_at)
resolve ==
    /\ inc # None
    /\ \E arg \in {None} \cup {Some(t) : t \in ResolveArgs(inc[1])} :
          inc' = Some(IncResolve(inc[1], arg, now))
    /\ result' = [op |-> "resolve"]
    /\ UNCHANGED <<now, counter, incidents, evaluations, risk, scenarios,
                 avail, service, rto_hours, rto_args, kpis,
                 rng, fixtures>>

\* inc.close()
close ==
    /\ inc # None
    /\ inc' = Some([inc[1] EXCEPT !.status = CLOSED])
    /\ result' = [op |-> "close"]
    /\ UNCHANGED <<now, counter, incidents, evaluations, risk, scenarios,
                 avail, service, rto_hours, rto_args, kpis,
                 rng, fixtures>>

\* inc.add_note(note)
add_note ==
    /\ inc # None
    /\ Len(inc[1].notes) < MaxNotes
    /\ inc' = Some([inc[1] EXCEPT !.notes = Append(@, now)])
    /\ result' = [op |-> "add_note"]
    /\ UNCHANGED <<now, counter, incidents, evaluations, risk, scenarios,
                 avail, service, rto_hours, rto_args, kpis,
                 rng, fixtures>>

-----------------------------------------------------------------------------
(* management/incident_manager.py *)

\* _next_id: f"INC-2024-{counter:03d}", the prefix and the decimal digits of
\* the counter, padded with zeros to three
next_id(n) ==
    LET dec[m \in 0..n] == IF m < 10 THEN <<m>> ELSE Append(dec[m \div 10], m % 10)
        pad == IF n < 10 THEN <<0, 0>> ELSE IF n < 100 THEN <<0>> ELSE << >>
    IN  <<"INC-2024-">> \o pad \o dec[n]

\* register_incident with the identifier built without advancing the counter
register_incident_same_id ==
    /\ Len(incidents) < MaxIncidents
    /\ \E sev \in Severity :
          incidents' = Append(incidents, NewIncident(next_id(1), sev, now))
    /\ counter' = counter + 1
    /\ result' = [op |-> "register_incident"]
    /\ UNCHANGED <<now, inc, evaluations, risk, scenarios,
                 avail, service, rto_hours, rto_args, kpis,
                 rng, fixtures>>

\* IncidentManager.register_incident (with _next_id)
register_incident ==
    /\ Len(incidents) < MaxIncidents
    /\ \E sev \in Severity :
          incidents' = Append(incidents, NewIncident(next_id(counter), sev, now))
    /\ counter' = counter + 1
    /\ result' = [op |-> "register_incident"]
    /\ UNCHANGED <<now, inc, evaluations, risk, scenarios,
                 avail, service, rto_hours, rto_args, kpis,
                 rng, fixtures>>

\* the random draws of one round of simulate_incidents: the severity, the
\* creation offset randint(1, 700) and the factor, in percent, drawn from
\* uniform(0.3, 0.95) (within SLA) or uniform(1.1, 3.0) (beyond it). Each
\* severity is drawn once within and once beyond its SLA.
Draws ==
    {[sev |-> "CRITICAL", offset_h |-> 1,   factor |-> 95],
     [sev |-> "CRITICAL", offset_h |-> 700, factor |-> 110],
     [sev |-> "HIGH",     offset_h |-> 700, factor |-> 30],
     [sev |-> "HIGH",     offset_h |-> 1,   factor |-> 300],
     [sev |-> "MEDIUM",   offset_h |-> 1,   factor |-> 95],
     [sev |-> "MEDIUM",   offset_h |-> 700, factor |-> 300],
     [sev |-> "LOW",      offset_h |-> 700, factor |-> 30],
     [sev |-> "LOW",      offset_h |-> 1,   factor |-> 110]}

\* one round of the loop of simulate_incidents
SimulateOne(d, id, clock) ==
    LET inc0 == NewIncident(id, d.sev, clock)
        inc1 == [inc0 EXCEPT !.created_at = BaseTime + d.offset_h * TicksPerHour]
        resolution_h == (sla_limit_hours(inc1) * TicksPerHour * d.factor) \div 100
    IN  IncResolve(inc1, Some(inc1.created_at + resolution_h), clock)

simulate_incidents ==
    /\ \E count \in 0..(MaxIncidents - Len(incidents)) :
       \E ds \in [1..count -> Draws] :
          /\ incidents' = incidents \o
                 [k \in 1..count |-> SimulateOne(ds[k], next_id(counter + k - 1), now)]
          /\ counter' = counter + count
    /\ result' = [op |-> "simulate_incidents"]
    /\ UNCHANGED <<now, inc, evaluations, risk, scenarios,
                 avail, service, rto_hours, rto_args, kpis,
                 rng, fixtures>>

\* incidents[i].resolve() on an open incident of the manager
resolve_registered ==
    /\ \E i \in 1..Len(incidents) :
          /\ incidents[i].status = OPEN
          /\ incidents' = [incidents EXCEPT ![i] = IncResolve(@, None, now)]
    /\ result' = [op |-> "resolve"]
    /\ UNCHANGED <<now, inc, counter, evaluations, risk, scenarios,
                 avail, service, rto_hours, rto_args, kpis,
                 rng, fixtures>>

\* IncidentManager.get_open_incidents
get_open_incidents(list) == SelectSeq(list, LAMBDA i : i.status = OPEN)

-----------------------------------------------------------------------------
(* The random module: one generator for the whole run, seeded by            *)
(* IncidentManager.__init__ and by default_scenarios.  The generator is a   *)
(* deterministic sequence of RandomRange-valued numbers fixed by its seed   *)
(* (a linear congruential one here); its state is the seed and how many     *)
(* numbers were drawn since.                                                *)

RandomRange == 2^16

\* a generator that takes its seed from the clock, as random.seed() does
random_from_clock(seed, k) ==
    (25173 * ((now + k) % RandomRange) + 13849) % RandomRange

\* the k-th number (k = 0, 1, ...) the generator yields after random.seed(seed)
RECURSIVE random(_, _)
random(seed, k) ==
    (25173 * (IF k = 0 THEN seed % RandomRange ELSE random(seed, k - 1)) + 13849)
        % RandomRange

\* random.uniform(a, b) from the number u; random.randint(a, b) is
\* uniform(u, a, b + 1) on integers
uniform(u, a, b) == a + (u * (b - a)) \div RandomRange

\* the numbers one round of simulate_incidents draws, from the k-th on, in
\* the order of evaluation: severity (weights 10/25/35/30), clients_affected,
\* incident_type and team (register_incident), offset_h, the 30 % test, factor
SimulatedDraw(seed, k) ==
    LET w   == uniform(random(seed, k), 0, 100)
        sev == IF w < 10 THEN "CRITICAL" ELSE IF w < 35 THEN "HIGH"
               ELSE IF w < 70 THEN "MEDIUM" ELSE "LOW"
        u   == random(seed, k + 6)
    IN  [sev              |-> sev,
         clients_affected |-> IF sev = "CRITICAL"
                              THEN uniform(random(seed, k + 1), 50, 3001)
                              ELSE uniform(random(seed, k + 1), 1, 501),
         incident_type    |-> uniform(random(seed, k + 2), 0, 10),
         team             |-> uniform(random(seed, k + 3), 0, 3),
         offset_h         |-> uniform(random(seed, k + 4), 1, 701),
         factor           |-> IF uniform(random(seed, k + 5), 0, 100) < 30
                              THEN uniform(u, 110, 300)
                              ELSE uniform(u, 30, 95)]

Seeds == {7, 42}

\* IncidentManager(seed)
IncidentManager_init ==
    /\ \E seed \in Seeds : rng' = [seed |-> seed, drawn |-> 0]
    /\ incidents' = << >>
    /\ counter' = 1
    /\ result' = [op |-> "IncidentManager"]
    /\ UNCHANGED <<now, inc, evaluations, risk, scenarios, avail, service,
                   rto_hours, rto_args, kpis, fixtures>>

\* simulate_incidents(count), the draws taken from the generator
simulate_incidents_seeded ==
    /\ \E count \in 0..(MaxIncidents - Len(incidents)) :
          LET draw(k) == SimulatedDraw(rng.seed, rng.drawn + 7 * (k - 1))
              new == [k \in 1..count |-> SimulateOne(draw(k), next_id(counter + k - 1), now)]
          IN  /\ incidents' = incidents \o new
              /\ counter' = counter + count
              /\ rng' = [rng EXCEPT !.drawn = @ + 7 * count]
              /\ fixtures' = SubSeq(fixtures, Max(1, Len(fixtures)), Len(fixtures)) \o
                     <<[op |-> "simulate_incidents", seed |-> rng.seed,
                        drawn |-> rng.drawn, counter |-> counter, n |-> count,
                        out |-> [k \in 1..count |->
                                   [entity |-> new[k],
                                    clients_affected |-> draw(k).clients_affected]]]>>
    /\ result' = [op |-> "simulate_incidents"]
    /\ UNCHANGED <<now, inc, evaluations, risk, scenarios, avail, service,
                   rto_hours, rto_args, kpis>>

-----------------------------------------------------------------------------
(* management/sla_manager.py *)

Verdict(i) == IF meets_sla(i) THEN "Cumple SLA" ELSE "Incumple SLA"

EvaluationRecord(i) ==
    [incident_id |-> i.incident_id, severity |-> i.severity,
     result |-> Verdict(i), penalty_usd |-> penalty_usd(i)]

\* what SLAManager.evaluate returns for incident i
EvaluateReturn(i) ==
    IF resolution_time_hours(i) = None THEN "Pendiente" ELSE Verdict(i)

\* SLAManager.evaluations after evaluate(i)
EvaluateAlwaysAppends(evals, i) == Append(evals, EvaluationRecord(i))

EvaluateAppend(evals, i) ==
    IF resolution_time_hours(i) = None THEN evals
    ELSE Append(evals, EvaluationRecord(i))

\* sla_manager.evaluate(incidents[i])
evaluate ==
    /\ Len(evaluations) < MaxEvaluations
    /\ \E k \in 1..Len(incidents) :
          /\ evaluations' = EvaluateAppend(evaluations, incidents[k])
          /\ result' = [op |-> "evaluate", arg |-> incidents[k],
                        ret |-> EvaluateReturn(incidents[k])]
    /\ UNCHANGED <<now, inc, counter, incidents, risk, scenarios,
                 avail, service, rto_hours, rto_args, kpis,
                 rng, fixtures>>

\* results = [self.evaluate(i) for i in incidents]
RECURSIVE EvaluateAll(_, _)
EvaluateAll(evals, list) ==
    IF list = << >> THEN evals
    ELSE EvaluateAll(EvaluateAppend(evals, Head(list)), Tail(list))

\* sum(1 for i in incidents if i.meets_sla())
RECURSIVE CountCompliant(_)
CountCompliant(list) ==
    IF list = << >> THEN 0
    ELSE (IF meets_sla(Head(list)) THEN 1 ELSE 0) + CountCompliant(Tail(list))

\* sum(i.penalty_usd() for i in incidents)
RECURSIVE TotalPenalty(_)
TotalPenalty(list) ==
    IF list = << >> THEN 0
    ELSE penalty_usd(Head(list)) + TotalPenalty(Tail(list))

\* "CUMPLE" if compliant / total >= 0.95 else "INCUMPLE", for total > 0
SlaStatusStrict(compliant, total) ==
    IF compliant * 100 > 95 * total THEN "CUMPLE" ELSE "INCUMPLE"

SlaStatus(compliant, total) ==
    IF compliant * 100 >= 95 * total THEN "CUMPLE" ELSE "INCUMPLE"

\* the summary dictionary of evaluate_batch; building it raises
\* ZeroDivisionError at compliant / total when the list is empty
BatchOutcome(list) ==
    LET total     == Len(list)
        compliant == CountCompliant(list)
    IN  IF total = 0
        THEN [raised |-> Some("ZeroDivisionError"), summary |-> None]
        ELSE [raised |-> None,
              summary |-> Some(
                [total_incidents     |-> total,
                 compliant           |-> compliant,
                 non_compliant       |-> total - compliant,
                 compliance_rate_pct |-> RoundDiv(compliant * 100 * 100, total),
                 total_penalty_usd   |-> TotalPenalty(list),
                 sla_status          |-> SlaStatus(compliant, total)])]

\* SLAManager.compliance_by_severity(incidents): one entry per severity of the
\* list; pct in 1/100 of a percent, avg_time_h in 1/HourScale. avg_time_h
\* adds the times that are set (and not 0.0) and divides by len(group)
compliance_by_severity(list) ==
    LET group(sev) == SelectSeq(list, LAMBDA i : i.severity = sev)
        time(i) == IF resolution_time_hours(i) = None THEN 0
                   ELSE resolution_time_hours(i)[1]
    IN  [sev \in {list[k].severity : k \in 1..Len(list)} |->
           [total       |-> Len(group(sev)),
            compliant   |-> CountCompliant(group(sev)),
            pct         |-> RoundDiv(CountCompliant(group(sev)) * 100 * 100,
                                     Len(group(sev))),
            penalty_usd |-> TotalPenalty(group(sev)),
            avg_time_h  |-> PctRound(
                              SumSeq([k \in 1..Len(group(sev)) |-> time(group(sev)[k])]),
                              Len(group(sev)) * TicksPerHour, 1)]]

\* the lists handed to evaluate_batch: the manager's list, the empty list, and
\* lists that repeat one incident of the manager and end with the next one
BatchArgs ==
    {<< >>, incidents} \cup
    {Rep(incidents[i], a) \o <<incidents[(i % Len(incidents)) + 1]>> :
        i \in 1..Len(incidents), a \in {MaxRepeat - 1, MaxRepeat}}

\* sla_manager.evaluate_batch(list)
evaluate_batch ==
    /\ Len(evaluations) < MaxEvaluations
    /\ \E list \in BatchArgs :
          /\ evaluations' = EvaluateAll(evaluations, list)
          /\ result' = [op |-> "evaluate_batch", arg |-> list] @@ BatchOutcome(list)
    /\ UNCHANGED <<now, inc, counter, incidents, risk, scenarios,
                 avail, service, rto_hours, rto_args, kpis,
                 rng, fixtures>>

-----------------------------------------------------------------------------
(* domain/risk.py *)

RISK_APPETITE_USD == 50000 * CentsPerUSD

\* Risk.__init__
NewRisk(p, impact) == [probability |-> p, impact_usd |-> impact, controls |-> << >>]

\* round(probability * impact_usd, 2), in cents
inherent_risk_usd(r) == MulDivRound(r.impact_usd, r.probability, ProbScale)

\* the product of (1 - effectiveness) over the controls, times EffScale^n
RECURSIVE Remaining(_)
Remaining(cs) ==
    IF cs = << >> THEN 1 ELSE (EffScale - Head(cs)) * Remaining(Tail(cs))

\* a plain sum of the effectiveness values, in 1/Eff4
control_effectiveness_sum(r) == SumSeq(r.controls) * (Eff4 \div EffScale)

\* round(1 - remaining, 4), in 1/Eff4
control_effectiveness(r) ==
    IF r.controls = << >> THEN 0
    ELSE LET d == Pow(EffScale, Len(r.controls))
             n == d - Remaining(r.controls)
         IN  IF d >= Eff4 THEN RoundDiv(n, d \div Eff4)
             ELSE n * (Eff4 \div d)

\* round(inherent * (1 - reduction), 2), in cents
residual_risk_usd(r) ==
    LET reduction == control_effectiveness(r)
    IN  MulDivRound(inherent_risk_usd(r), Eff4 - reduction, Eff4)

risk_level_le(r) ==
    LET res == residual_risk_usd(r)
    IN  IF res <= 10000 * CentsPerUSD THEN "Bajo"
        ELSE IF res <= 30000 * CentsPerUSD THEN "Medio"
        ELSE IF res <= 60000 * CentsPerUSD THEN "Alto"
        ELSE "Crítico"

risk_level(r) ==
    LET res == residual_risk_usd(r)
    IN  IF res < 10000 * CentsPerUSD THEN "Bajo"
        ELSE IF res < 30000 * CentsPerUSD THEN "Medio"
        ELSE IF res < 60000 * CentsPerUSD THEN "Alto"
        ELSE "Crítico"

exceeds_appetite(r) == residual_risk_usd(r) > RISK_APPETITE_USD

\* the inputs: probabilities 0.08, 0.15, 1.0; impacts around the level
\* thresholds, in cents; effectiveness 0, 0.001, 0.4, 0.55, 0.999, 1.0
Probabilities == {80, 150, 1000}
Impacts == {999999, 1000000, 2999999, 3000000, 5999999, 6000000, 29500000}
Effectiveness == {0, 1, 400, 550, 999, 1000}

\* Risk(...): the constructor
Risk_init ==
    /\ risk = None
    /\ \E p \in Probabilities, impact \in Impacts : risk' = Some(NewRisk(p, impact))
    /\ result' = [op |-> "Risk"]
    /\ UNCHANGED <<now, inc, counter, incidents, evaluations, scenarios,
                 avail, service, rto_hours, rto_args, kpis,
                 rng, fixtures>>

\* risk.add_control(name, effectiveness)
add_control ==
    /\ risk # None
    /\ Len(risk[1].controls) < MaxControls
    /\ \E e \in Effectiveness :
          risk' = Some([risk[1] EXCEPT !.controls = Append(@, e)])
    /\ result' = [op |-> "add_control"]
    /\ UNCHANGED <<now, inc, counter, incidents, evaluations, scenarios,
                 avail, service, rto_hours, rto_args, kpis,
                 rng, fixtures>>

-----------------------------------------------------------------------------
(* domain/continuity.py, continuity/recovery_simulator.py *)

COST_PER_HOUR_USD == 15000

\* ContinuityScenario.__init__: hours in 1/HourScale, actual values unset
NewScenario(id, p, rto, rpo) ==
    [scenario_id |-> id, probability |-> p,
     rto_objective_h |-> rto, rpo_objective_h |-> rpo,
     actual_rto_h |-> None, actual_rpo_h |-> None]

meets_rto_unguarded(s) ==
    IF s.actual_rto_h = None THEN TRUE
    ELSE s.actual_rto_h[1] <= s.rto_objective_h

meets_rto(s) ==
    IF s.actual_rto_h = None THEN FALSE
    ELSE s.actual_rto_h[1] <= s.rto_objective_h

meets_rpo(s) ==
    IF s.actual_rpo_h = None THEN FALSE
    ELSE s.actual_rpo_h[1] <= s.rpo_objective_h

\* round(actual_rto_h * COST_PER_HOUR_USD, 2), in cents
financial_impact_usd(s) ==
    IF s.actual_rto_h = None THEN 0
    ELSE MulDivRound(COST_PER_HOUR_USD * CentsPerUSD, s.actual_rto_h[1], HourScale)

\* round(probability * financial_impact_usd(), 2), in cents
scenario_residual_risk_usd(s) ==
    MulDivRound(financial_impact_usd(s), s.probability, ProbScale)

\* round(max(0, actual - objective), 2), in 1/HourScale
rto_gap_h(s) ==
    IF s.actual_rto_h = None THEN 0
    ELSE Max(0, s.actual_rto_h[1] - s.rto_objective_h)

\* RecoverySimulator.add_scenario(ContinuityScenario(...)), with the objectives
\* of default_scenarios (4 h, 0.25 h)
add_scenario ==
    /\ Len(scenarios) < MaxScenarios
    /\ \E rto \in {400}, rpo \in {25} :
          scenarios' = Append(scenarios,
                              NewScenario(Len(scenarios) + 1, 150, rto, rpo))
    /\ result' = [op |-> "add_scenario"]
    /\ UNCHANGED <<now, inc, counter, incidents, evaluations, risk,
                 avail, service, rto_hours, rto_args, kpis,
                 rng, fixtures>>

\* scenarios[i].simulate(actual_rto_h, actual_rpo_h)
simulate ==
    /\ \E i \in 1..Len(scenarios), rto \in {0, 400, 401}, rpo \in {0, 25, 26} :
          scenarios' = [scenarios EXCEPT ![i] =
                           [@ EXCEPT !.actual_rto_h = Some(rto),
                                     !.actual_rpo_h = Some(rpo)]]
    /\ result' = [op |-> "simulate"]
    /\ UNCHANGED <<now, inc, counter, incidents, evaluations, risk,
                 avail, service, rto_hours, rto_args, kpis,
                 rng, fixtures>>

-----------------------------------------------------------------------------
(* domain/service.py *)

Service_COST_PER_HOUR_USD == 15000

\* hours of a Service in 1/Hour4 (round(.., 4))
Hour4 == 10^4

\* Service.__init__(service_id, name, tier, sla_availability_pct): the target
\* in 1/Hour4 of a percent, no downtime events
NewService(sla_availability_pct) ==
    [sla_availability_pct |-> sla_availability_pct, downtime_events |-> << >>]

\* the event register_downtime(start, end) appends; start and end in ticks
DowntimeEvent(start, end) ==
    LET seconds == (end - start) \div TicksPerSecond
    IN  [start |-> start, end |-> end,
         duration_h |-> RoundDiv(seconds * Hour4, SecondsPerHour),
         cost_usd |->
             MulDivRound(Service_COST_PER_HOUR_USD * CentsPerUSD, seconds,
                         SecondsPerHour)]

total_downtime_hours(self) ==
    SumSeq([i \in 1..Len(self.downtime_events) |->
               self.downtime_events[i].duration_h])

\* round((uptime / total_hours) * 100, 4) for total_hours # 0, in 1/Hour4
AvailabilityPct(self, total_hours) ==
    PctRound(100 * (total_hours - total_downtime_hours(self)), total_hours, 2)

availability_zero_without_period(self, total_hours) ==
    IF total_hours = 0 THEN 0 ELSE AvailabilityPct(self, total_hours)

\* Service.availability(total_hours), total_hours in 1/Hour4
availability(self, total_hours) ==
    IF total_hours = 0 THEN 100 * Hour4 ELSE AvailabilityPct(self, total_hours)

Service_meets_sla(self, total_hours) ==
    availability(self, total_hours) >= self.sla_availability_pct

total_financial_impact(self) ==
    SumSeq([i \in 1..Len(self.downtime_events) |->
               self.downtime_events[i].cost_usd])

\* the inputs: targets 99.9, 99.95 and 100; downtimes of 0 s, 1 s, 0.73 h
\* (0.1 % of a month) and around it, and 2 h; periods of 0, 1 and 730 hours
ServiceTargets == {999000, 999500, 1000000}
DowntimeSeconds == {0, 1, 1314, 2628, 2629, 7200}
TotalHours == {0, 1 * Hour4, 730 * Hour4}

Service_init ==
    /\ \E t \in ServiceTargets : service' = Some(NewService(t))
    /\ result' = [op |-> "Service"]
    /\ UNCHANGED <<now, inc, counter, incidents, evaluations, risk, scenarios,
                   avail, rto_hours, rto_args, kpis,
                   rng, fixtures>>

\* Service.register_downtime(start, end, cause), with start the clock reading
Service_register_downtime ==
    /\ service # None
    /\ Len(service[1].downtime_events) < MaxEvents
    /\ \E d \in DowntimeSeconds :
          service' = [service EXCEPT ![1].downtime_events =
                         Append(@, DowntimeEvent(now, now + d * TicksPerSecond))]
    /\ result' = [op |-> "Service.register_downtime"]
    /\ UNCHANGED <<now, inc, counter, incidents, evaluations, risk, scenarios,
                   avail, rto_hours, rto_args, kpis,
                   rng, fixtures>>

-----------------------------------------------------------------------------
(* management/availability_manager.py *)

HOURS_PER_MONTH == 730
MinutesPerHour == 60
\* minutes in 1/MinuteScale, percentages in 1/Pct4 (round(.., 4)), the
\* hours_down argument in 1/HourArgScale
MinuteScale == 10^1
Pct4 == 10^4
HourArgScale == 10^3

\* AvailabilityManager.__init__(total_minutes_period): None and 0 are both
\* replaced by the minutes of a 12-month period
NewAvailabilityManager(total_minutes_period) ==
    [total_minutes |->
         IF total_minutes_period = None \/ total_minutes_period[1] = 0
         THEN HOURS_PER_MONTH * MinutesPerHour * 12 * MinuteScale
         ELSE total_minutes_period[1],
     downtime_minutes |-> 0,
     monthly_records |-> << >>]

\* round((uptime / total_minutes) * 100, 4), in 1/Pct4; a zero baseline
\* raises ZeroDivisionError
calculate_availability(self) ==
    IF self.total_minutes = 0 THEN [raised |-> Some("ZeroDivisionError")]
    ELSE [raised |-> None,
          value |-> PctRound(100 * (self.total_minutes - self.downtime_minutes),
                             self.total_minutes, 2)]

evaluate_sla_gt(self, target) == calculate_availability(self).value > target

evaluate_sla(self, target) == calculate_availability(self).value >= target

\* the baselines tried: none given, 0, and the 30 days of main.py
TotalMinutes == {None, Some(0), Some(43200 * MinuteScale)}
\* downtimes around 0.1 % of both baselines, and main.py's 120 minutes
Downtimes == {0, 432, 433, 1200, 5256, 5257}
SlaTargets == {997222, 999000, 999500}

AvailabilityManager_init ==
    /\ \E t \in TotalMinutes : avail' = Some(NewAvailabilityManager(t))
    /\ result' = [op |-> "AvailabilityManager"]
    /\ UNCHANGED <<now, inc, counter, incidents, evaluations, risk, scenarios,
                   service, rto_hours, rto_args, kpis,
                   rng, fixtures>>

\* AvailabilityManager.register_downtime(minutes)
register_downtime ==
    /\ avail # None
    /\ \E m \in Downtimes :
          /\ avail[1].downtime_minutes + m <= MaxDowntime * MinuteScale
          /\ avail' = [avail EXCEPT ![1].downtime_minutes = @ + m]
    /\ result' = [op |-> "register_downtime"]
    /\ UNCHANGED <<now, inc, counter, incidents, evaluations, risk, scenarios,
                   service, rto_hours, rto_args, kpis,
                   rng, fixtures>>

\* {}: the dict without keys; a dict with keys d is Some(d)
EmptyDict == << >>

\* a percentage written with at most 4 decimals, as the float it denotes
PctFloat(u) == FromRatio(BFromInt(u), Pct4)

\* sum(...) over floats: left to right, starting from acc
RECURSIVE FSum(_, _)
FSum(s, acc) == IF s = << >> THEN acc ELSE FSum(Tail(s), FAdd(acc, Head(s)))

\* the record record_monthly_availability builds: uptime_pct and sla_target
\* in 1/Pct4, hours_down in 1/HourArgScale
MonthlyRecord(month, uptime_pct, hours_down, sla_target) ==
    [month |-> month,
     uptime_pct |-> FRoundDec(PctFloat(uptime_pct), Pct4),
     hours_down |-> RoundDiv(hours_down * HourScale, HourArgScale),
     minutes_down |->
         RoundDiv(hours_down * MinutesPerHour * MinuteScale, HourArgScale),
     meets_sla |-> FLe(PctFloat(sla_target), PctFloat(uptime_pct)),
     financial_impact |->
         MulDivRound(Service_COST_PER_HOUR_USD * CentsPerUSD, hours_down,
                     HourArgScale)]

annual_summary(self, sla_target) ==
    IF self.monthly_records = << >> THEN EmptyDict
    ELSE LET recs == self.monthly_records
             n == Len(recs)
             avg_uptime ==
                 FDivInt(FSum([i \in 1..n |-> PctFloat(recs[i].uptime_pct)],
                              FromInt(0)), n)
             compliant == SelectSeq(recs, LAMBDA r : r.meets_sla)
             failing == SelectSeq(recs, LAMBDA r : ~r.meets_sla)
             total_cost == SumSeq([i \in 1..n |-> recs[i].financial_impact])
         IN  Some([avg_annual_uptime_pct |-> FRoundDec(avg_uptime, Pct4),
                   months_compliant |-> Len(compliant),
                   months_non_compliant |-> n - Len(compliant),
                   non_compliant_months |->
                       [i \in 1..Len(failing) |-> failing[i].month],
                   total_financial_impact |-> total_cost,
                   global_status |-> IF FLe(PctFloat(sla_target), avg_uptime)
                                    THEN "CUMPLE" ELSE "REQUIERE_MEJORA"])

\* the calls tried: months at, around and below the targets 99.9 and 99.95,
\* with and without hours down
MonthlyArgs ==
    { <<"Ene", 999400, 0, 999000>>,
      <<"Feb", 999600, 1234, 999000>>,
      <<"Mar", 999000, 500, 999000>>,
      <<"Abr", 990000, 7300, 999000>>,
      <<"May", 999400, 105, 999500>>,
      <<"Mar", 998999, 876, 999000>> }

\* AvailabilityManager.record_monthly_availability(month, uptime_pct,
\* hours_down, sla_target)
record_monthly_availability ==
    /\ avail # None
    /\ Len(avail[1].monthly_records) < MaxMonths
    /\ \E a \in MonthlyArgs :
          LET record == MonthlyRecord(a[1], a[2], a[3], a[4])
          IN  /\ avail' = [avail EXCEPT ![1].monthly_records = Append(@, record)]
              /\ result' = [op |-> "record_monthly_availability", arg |-> a,
                            value |-> record]
    /\ UNCHANGED <<now, inc, counter, incidents, evaluations, risk, scenarios,
                   service, rto_hours, rto_args, kpis,
                   rng, fixtures>>

-----------------------------------------------------------------------------
(* continuity/recovery_simulator.py *)

\* RecoverySimulator.__init__(rto_minutes, rto_hours): rto_minutes an
\* optional integer, rto_hours in 1/HourScale
RtoCeiling(rto_minutes, rto_hours_arg) ==
    IF rto_minutes # None
    THEN FromRatio(BFromInt(rto_minutes[1]), MinutesPerHour)
    ELSE FromRatio(BFromInt(rto_hours_arg), HourScale)

\* simulate_recovery(actual_recovery_time), minutes as an integer
SimulateRecovery(ceiling_h, actual_recovery_time) ==
    IF FLe(FromInt(actual_recovery_time), FRound(BMul(ceiling_h.m, MinutesPerHour), ceiling_h.e, FALSE))
    THEN "Recuperación dentro del RTO" ELSE "Incumplimiento del RTO"

\* the constructor arguments tried: main.py's 60 minutes and 4.0 hours, no
\* minutes, 0 minutes, and 123 minutes
RtoMinutes == {None, Some(0), Some(60), Some(123)}
RtoHours == {100, 400}
ActualMinutes == {0, 1, 59, 60, 61, 122, 123, 124, 240, 241}

RecoverySimulator_init ==
    /\ \E m \in RtoMinutes, h \in RtoHours :
          /\ rto_hours' = RtoCeiling(m, h)
          /\ rto_args' = [rto_minutes |-> m, rto_hours |-> h]
    /\ scenarios' = << >>
    /\ result' = [op |-> "RecoverySimulator"]
    /\ UNCHANGED <<now, inc, counter, incidents, evaluations, risk,
                   avail, service, kpis,
                   rng, fixtures>>

simulate_recovery ==
    /\ \E a \in ActualMinutes :
          result' = [op |-> "simulate_recovery", arg |-> a,
                     value |-> SimulateRecovery(rto_hours, a)]
    /\ UNCHANGED <<now, inc, counter, incidents, evaluations, risk, scenarios,
                   avail, service, rto_hours, rto_args, kpis,
                   rng, fixtures>>

\* percentages in 1/Pct1: round(.., 1)
Pct1 == 10^1

CriticalScenariosByRpo(scs) ==
    LET critical == SelectSeq(scs, LAMBDA sc : ~meets_rpo(sc))
    IN  [i \in 1..Len(critical) |-> critical[i].scenario_id]

\* [s.scenario_id for s in self.scenarios if not s.meets_rto()]
CriticalScenarios(scs) ==
    LET critical == SelectSeq(scs, LAMBDA sc : ~meets_rto(sc))
    IN  [i \in 1..Len(critical) |-> critical[i].scenario_id]

\* the dict continuity_summary builds from a non-empty list
ContinuitySummaryDict(scs) ==
    LET total == Len(scs)
        rto_compliant == Len(SelectSeq(scs, meets_rto))
        rpo_compliant == Len(SelectSeq(scs, meets_rpo))
        total_impact ==
            SumSeq([i \in 1..total |-> financial_impact_usd(scs[i])])
        total_risk ==
            SumSeq([i \in 1..total |-> scenario_residual_risk_usd(scs[i])])
    IN  [total_scenarios |-> total,
         rto_compliant |-> rto_compliant,
         rto_compliance_pct |-> RoundDiv(rto_compliant * 100 * Pct1, total),
         rpo_compliant |-> rpo_compliant,
         rpo_compliance_pct |-> RoundDiv(rpo_compliant * 100 * Pct1, total),
         total_financial_impact_usd |-> total_impact,
         total_residual_risk_usd |-> total_risk,
         critical_scenarios |-> CriticalScenarios(scs)]

continuity_summary_from_two(scs) ==
    IF Len(scs) <= 1 THEN EmptyDict ELSE Some(ContinuitySummaryDict(scs))

\* RecoverySimulator.continuity_summary()
continuity_summary(scs) ==
    IF scs = << >> THEN EmptyDict ELSE Some(ContinuitySummaryDict(scs))

\* ContinuityScenario.to_dict
Scenario_to_dict(s) ==
    [scenario_id          |-> s.scenario_id,
     probability          |-> s.probability,
     rto_objective_h      |-> s.rto_objective_h,
     rpo_objective_h      |-> s.rpo_objective_h,
     actual_rto_h         |-> s.actual_rto_h,
     actual_rpo_h         |-> s.actual_rpo_h,
     meets_rto            |-> meets_rto(s),
     meets_rpo            |-> meets_rpo(s),
     rto_gap_h            |-> rto_gap_h(s),
     financial_impact_usd |-> financial_impact_usd(s),
     residual_risk_usd    |-> scenario_residual_risk_usd(s)]

\* RecoverySimulator.run_all: the log line of each scenario formats
\* actual_rto_h with :.2f, which raises TypeError on None
run_all(scs) ==
    IF \E i \in 1..Len(scs) : scs[i].actual_rto_h = None
    THEN [raised |-> Some("TypeError"), value |-> << >>]
    ELSE [raised |-> None,
          value  |-> [i \in 1..Len(scs) |-> Scenario_to_dict(scs[i])]]

\* RecoverySimulator.default_scenarios(seed): the five standard scenarios, the
\* tuples of scenarios_data evaluated in order (clients, RTO, RPO within each)
default_scenarios(seed) ==
    LET u(k) == random(seed, k)
        scenarios_data ==
            << <<150, 3000,                    uniform(u(0), 250, 650),
                                               uniform(u(1), 10, 50)>>,
               <<80,  3000,                    uniform(u(2), 800, 2400),
                                               uniform(u(3), 100, 400)>>,
               <<120, uniform(u(4), 1500, 3001), uniform(u(5), 150, 500),
                                               uniform(u(6), 5, 30)>>,
               <<200, uniform(u(7), 500, 2001),  uniform(u(8), 50, 300), 0>>,
               <<250, uniform(u(9), 100, 801),   uniform(u(10), 50, 250), 0>> >>
    IN  [i \in 1..5 |->
           [entity |-> [NewScenario(i, scenarios_data[i][1], 400, 25)
                           EXCEPT !.actual_rto_h = Some(scenarios_data[i][3]),
                                  !.actual_rpo_h = Some(scenarios_data[i][4])],
            clients_affected |-> scenarios_data[i][2]]]

\* RecoverySimulator.default_scenarios(seed), called
RecoverySimulator_default_scenarios ==
    /\ \E seed \in Seeds :
          /\ rng' = [seed |-> seed, drawn |-> 11]
          /\ result' = [op |-> "default_scenarios", value |-> default_scenarios(seed)]
          /\ fixtures' = SubSeq(fixtures, Max(1, Len(fixtures)), Len(fixtures)) \o
                 <<[op |-> "default_scenarios", seed |-> seed, drawn |-> 0,
                    counter |-> 1, n |-> 5, out |-> default_scenarios(seed)]>>
    /\ UNCHANGED <<now, inc, counter, incidents, evaluations, risk, scenarios,
                   avail, service, rto_hours, rto_args, kpis>>

-----------------------------------------------------------------------------
(* governance/kpi.py, governance/cobit_dashboard.py *)

\* KPI.__init__: value and threshold in 1/Pct4
NewKPI(name, value, threshold, higher_is_better) ==
    [name |-> name, value |-> value, threshold |-> threshold,
     higher_is_better |-> higher_is_better]

status_strict(k) ==
    IF k.higher_is_better
    THEN (IF k.value > k.threshold THEN "OK" ELSE "ALERTA")
    ELSE (IF k.value < k.threshold THEN "OK" ELSE "ALERTA")

status(k) ==
    IF k.higher_is_better
    THEN (IF k.value >= k.threshold THEN "OK" ELSE "ALERTA")
    ELSE (IF k.value <= k.threshold THEN "OK" ELSE "ALERTA")

\* round(value - threshold, 4), in 1/Pct4
gap(k) == k.value - k.threshold

\* round((gap() / threshold) * 100, 2), in 1/100 of a percent
gap_pct(k) ==
    IF k.threshold = 0 THEN 0 ELSE PctRound(gap(k), k.threshold, 2)

MAX_ALERTS_TOLERATED == 1

alerts(ks) == SelectSeq(ks, LAMBDA k : status(k) = "ALERTA")

governance_status_lt(ks) ==
    LET n_alerts == Len(alerts(ks))
    IN  IF n_alerts = 0 THEN "CONFORME"
        ELSE IF n_alerts < MAX_ALERTS_TOLERATED THEN "OBSERVACIÓN"
        ELSE "NO CONFORME"

governance_status(ks) ==
    LET n_alerts == Len(alerts(ks))
    IN  IF n_alerts = 0 THEN "CONFORME"
        ELSE IF n_alerts <= MAX_ALERTS_TOLERATED THEN "OBSERVACIÓN"
        ELSE "NO CONFORME"

\* descriptions.get(score, "Inicial")
descriptions(score) ==
    CASE score = 5 -> "Optimizado"
      [] score = 4 -> "Cuantitativamente Gestionado"
      [] score = 3 -> "Definido"
      [] score = 2 -> "Gestionado"
      [] score = 1 -> "Inicial"
      [] score = 0 -> "Inexistente"
      [] OTHER -> "Inicial"

maturity_level_half_up(ks) ==
    LET ok_count == Len(SelectSeq(ks, LAMBDA k : status(k) = "OK"))
        total == IF Len(ks) = 0 THEN 1 ELSE Len(ks)
        score == (2 * ok_count * 5 + total) \div (2 * total)
    IN  <<score, descriptions(score)>>

maturity_level(ks) ==
    LET ok_count == Len(SelectSeq(ks, LAMBDA k : status(k) = "OK"))
        total == IF Len(ks) = 0 THEN 1 ELSE Len(ks)
        score == RoundDiv(ok_count * 5, total)
    IN  <<score, descriptions(score)>>

\* format(x, ".2f") of a number in 1/Pct4, in 1/100
Format2f(x) == RoundDiv(x, Pct4 \div 100)

committee_decision_without_default(ks) ==
    LET a == alerts(ks)
    IN  [i \in 1..Len(a) |->
             <<"ACCIÓN REQUERIDA", a[i].name, Format2f(a[i].value),
               Format2f(a[i].threshold)>>]

\* a decision is the text with the values it cites
committee_decision(ks) ==
    LET a == alerts(ks)
        decisions ==
            [i \in 1..Len(a) |->
                <<"ACCIÓN REQUERIDA", a[i].name, Format2f(a[i].value),
                  Format2f(a[i].threshold)>>]
    IN  IF decisions = << >>
        THEN <<<<"Sin acciones correctivas pendientes">>>>
        ELSE decisions

\* the KPIs tried: those of main.py, with values at, above and below the
\* thresholds in both directions, and a threshold of 0
KpiArgs ==
    { <<"Disponibilidad", 998765, 999000, TRUE>>,
      <<"Cumplimiento SLA", 900000, 900000, TRUE>>,
      <<"Satisfacción Cliente", 823000, 800000, TRUE>>,
      <<"Incidentes Críticos", 0, 20000, FALSE>>,
      <<"Incidentes Críticos", 30000, 20000, FALSE>>,
      <<"Cambios Fallidos", 600000, 600000, FALSE>>,
      <<"Brechas", 10000, 0, FALSE>> }

\* add_kpi inserting at the front, as self.kpis.insert(0, kpi) would
add_kpi_at_front ==
    /\ Len(kpis) < MaxKpis
    /\ \E a \in KpiArgs : kpis' = <<NewKPI(a[1], a[2], a[3], a[4])>> \o kpis
    /\ result' = [op |-> "add_kpi"]
    /\ UNCHANGED <<now, inc, counter, incidents, evaluations, risk, scenarios,
                   avail, service, rto_hours, rto_args, rng, fixtures>>

\* GovernanceDashboard.add_kpi(KPI(...))
add_kpi ==
    /\ Len(kpis) < MaxKpis
    /\ \E a \in KpiArgs : kpis' = Append(kpis, NewKPI(a[1], a[2], a[3], a[4]))
    /\ result' = [op |-> "add_kpi"]
    /\ UNCHANGED <<now, inc, counter, incidents, evaluations, risk, scenarios,
                   avail, service, rto_hours, rto_args,
                   rng, fixtures>>

\* GovernanceDashboard.add_kpi(KPI(...)) on a large dashboard: the KPI is one
\* that is OK or one that is in ALERTA
add_kpi_to_board ==
    /\ Len(kpis) < MaxBoardKpis
    /\ \E a \in { <<"Cumplimiento SLA", 900000, 900000, TRUE>>,
                   <<"Disponibilidad", 998765, 999000, TRUE>> } :
          kpis' = Append(kpis, NewKPI(a[1], a[2], a[3], a[4]))
    /\ result' = [op |-> "add_kpi"]
    /\ UNCHANGED <<now, inc, counter, incidents, evaluations, risk, scenarios,
                   avail, service, rto_hours, rto_args, rng, fixtures>>

-----------------------------------------------------------------------------
(* reports/report_generator.py *)

IntegratedMaturity_strict(sla_sum, avail_sum, dash_data, cont_sum) ==
    LET get(d, v) == IF d = EmptyDict THEN 0 ELSE v
        met == <<get(avail_sum,
                     avail_sum[1].avg_annual_uptime_pct) > 999 * (Pct4 \div 10),
                 get(sla_sum, sla_sum[1].compliance_rate_pct) > 90 * 100,
                 get(dash_data, dash_data[1].maturity_level) > 3,
                 get(cont_sum,
                     cont_sum[1].rto_compliance_pct) > 60 * Pct1,
                 get(sla_sum, sla_sum[1].compliance_rate_pct) > 80 * 100>>
        maturity_score == Cardinality({k \in 1..5 : met[k]})
    IN  [maturity_score |-> maturity_score, maturity_desc |-> "Inicial"]

\* generate_final_report: the integrated maturity score and its label, a
\* missing key of a summary read as 0 (dict.get(key, 0))
IntegratedMaturity(sla_sum, avail_sum, dash_data, cont_sum) ==
    LET get(d, v) == IF d = EmptyDict THEN 0 ELSE v
        met == <<get(avail_sum,
                     avail_sum[1].avg_annual_uptime_pct) >= 999 * (Pct4 \div 10),
                 get(sla_sum, sla_sum[1].compliance_rate_pct) >= 90 * 100,
                 get(dash_data, dash_data[1].maturity_level) >= 3,
                 get(cont_sum,
                     cont_sum[1].rto_compliance_pct) >= 60 * Pct1,
                 get(sla_sum, sla_sum[1].compliance_rate_pct) >= 80 * 100>>
        maturity_score == Cardinality({k \in 1..5 : met[k]})
    IN  [maturity_score |-> maturity_score,
         maturity_desc  |-> CASE maturity_score = 5 -> "Optimizado"
                              [] maturity_score = 4 -> "Cuantitativamente Gestionado"
                              [] maturity_score = 3 -> "Definido"
                              [] maturity_score = 2 -> "Gestionado"
                              [] maturity_score = 1 -> "Inicial"
                              [] maturity_score = 0 -> "Inexistente"
                              [] OTHER -> "Inicial"]

\* report.generate_final_report(sla_summary, availability_summary,
\* dashboard_data, continuity_summary), each summary the empty dictionary or
\* one whose value is at or next to a threshold
generate_final_report ==
    /\ \E sla \in {EmptyDict} \cup
                  {Some([compliance_rate_pct |-> v]) :
                      v \in {0, 7999, 8000, 8999, 9000, 10000}},
          av \in {EmptyDict} \cup
                  {Some([avg_annual_uptime_pct |-> v]) :
                      v \in {998999, 999000, 999001}},
          dash \in {EmptyDict} \cup
                  {Some([maturity_level |-> v]) : v \in 0..5},
          cont \in {EmptyDict} \cup
                  {Some([rto_compliance_pct |-> v]) : v \in {0, 599, 600, 1000}} :
          result' = [op |-> "generate_final_report",
                     arg |-> [sla_summary |-> sla, availability_summary |-> av,
                              dashboard_data |-> dash, continuity_summary |-> cont],
                     value |-> IntegratedMaturity(sla, av, dash, cont)]
    /\ UNCHANGED <<now, inc, counter, incidents, evaluations, risk, scenarios,
                   avail, service, rto_hours, rto_args, kpis, rng, fixtures>>

-----------------------------------------------------------------------------
(* The derived-metric accessors.  Each reads the fields of the object it is *)
(* called on and returns a value; none of them assigns a field.             *)

\* what the accessors of one class return on the object held now
DerivedMetrics(class, arg) ==
    CASE class = "Incident" ->
           [meets_sla    |-> meets_sla(inc[1]),
            excess_hours |-> excess_hours(inc[1]),
            penalty_usd  |-> penalty_usd(inc[1])]
      [] class = "Service" ->
           [availability |-> availability(service[1], arg[1]),
            meets_sla    |-> Service_meets_sla(service[1], arg[1])]
      [] class = "Risk" ->
           [control_effectiveness |-> control_effectiveness(risk[1]),
            residual_risk_usd     |-> residual_risk_usd(risk[1]),
            risk_level            |-> risk_level(risk[1])]
      [] class = "ContinuityScenario" ->
           [i \in 1..Len(scenarios) |->
               [meets_rto            |-> meets_rto(scenarios[i]),
                rto_gap_h            |-> rto_gap_h(scenarios[i]),
                financial_impact_usd |-> financial_impact_usd(scenarios[i])]]
      [] class = "GovernanceDashboard" ->
           [kpis |-> [i \in 1..Len(kpis) |->
                         [status |-> status(kpis[i]), gap |-> gap(kpis[i])]],
            maturity_level    |-> maturity_level(kpis),
            governance_status |-> governance_status(kpis)]

\* inc.meets_sla(), inc.excess_hours(), inc.penalty_usd()
Incident_metrics ==
    /\ inc # None
    /\ result' = [op |-> "metrics", class |-> "Incident", arg |-> None,
                  value |-> DerivedMetrics("Incident", None)]
    /\ UNCHANGED <<now, inc, counter, incidents, evaluations, risk, scenarios,
                   avail, service, rto_hours, rto_args, kpis,
                   rng, fixtures>>

\* service.availability(total_hours), service.meets_sla(total_hours)
Service_metrics ==
    /\ service # None
    /\ \E h \in TotalHours :
          result' = [op |-> "metrics", class |-> "Service", arg |-> Some(h),
                     value |-> DerivedMetrics("Service", Some(h))]
    /\ UNCHANGED <<now, inc, counter, incidents, evaluations, risk, scenarios,
                   avail, service, rto_hours, rto_args, kpis,
                   rng, fixtures>>

\* risk.control_effectiveness(), risk.residual_risk_usd(), risk.risk_level()
Risk_metrics ==
    /\ risk # None
    /\ result' = [op |-> "metrics", class |-> "Risk", arg |-> None,
                  value |-> DerivedMetrics("Risk", None)]
    /\ UNCHANGED <<now, inc, counter, incidents, evaluations, risk, scenarios,
                   avail, service, rto_hours, rto_args, kpis,
                   rng, fixtures>>

\* s.meets_rto(), s.rto_gap_h(), s.financial_impact_usd() of every scenario
Scenario_metrics ==
    /\ scenarios # << >>
    /\ result' = [op |-> "metrics", class |-> "ContinuityScenario", arg |-> None,
                  value |-> DerivedMetrics("ContinuityScenario", None)]
    /\ UNCHANGED <<now, inc, counter, incidents, evaluations, risk, scenarios,
                   avail, service, rto_hours, rto_args, kpis,
                   rng, fixtures>>

\* k.status(), k.gap() of every KPI; dashboard.maturity_level(),
\* dashboard.governance_status()
Governance_metrics ==
    /\ result' = [op |-> "metrics", class |-> "GovernanceDashboard", arg |-> None,
                  value |-> DerivedMetrics("GovernanceDashboard", None)]
    /\ UNCHANGED <<now, inc, counter, incidents, evaluations, risk, scenarios,
                   avail, service, rto_hours, rto_args, kpis,
                   rng, fixtures>>

-----------------------------------------------------------------------------

Init ==
    /\ now = StartTime
    /\ inc = None
    /\ counter = 1
    /\ incidents = << >>
    /\ evaluations = << >>
    /\ result = [op |-> "init"]
    /\ risk = None
    /\ scenarios = << >>
    /\ avail = None
    /\ service = None
    /\ rto_hours = RtoCeiling(None, 400)
    /\ rto_args = [rto_minutes |-> None, rto_hours |-> 400]
    /\ kpis = << >>
    /\ rng = [seed |-> 42, drawn |-> 0]
    /\ fixtures = << >>

\* one specification per subsystem: the operations a run performs on it
SpecIncident ==
    Init /\ [][Tick \/ Incident_init \/ resolve \/ close \/ add_note]_vars

SpecManager ==
    Init /\ [][Tick \/ register_incident \/ simulate_incidents
                  \/ resolve_registered]_vars

SpecSLA ==
    Init /\ [][register_incident \/ simulate_incidents \/ evaluate
                  \/ evaluate_batch]_vars

SpecRisk == Init /\ [][Risk_init \/ add_control]_vars

SpecContinuity == Init /\ [][add_scenario \/ simulate]_vars

\* the stand-alone entities together: an Incident (at one clock reading) and
\* the scenarios
SpecEntities ==
    Init /\ [][Incident_init \/ resolve \/ close \/ add_note
                  \/ add_scenario \/ simulate]_vars

SpecAvailability == Init /\ [][AvailabilityManager_init \/ register_downtime]_vars

SpecService == Init /\ [][Service_init \/ Service_register_downtime]_vars

SpecGovernance == Init /\ [][add_kpi]_vars

\* the two summaries: monthly records and continuity scenarios
SpecSummaries ==
    Init /\ [][AvailabilityManager_init \/ record_monthly_availability
                  \/ add_scenario]_vars

SpecSimulator ==
    Init /\ [][RecoverySimulator_init \/ add_scenario \/ simulate_recovery]_vars

\* the classes an object of which has been built
Held ==
    (IF inc # None THEN {"Incident"} ELSE {})
    \cup (IF service # None THEN {"Service"} ELSE {})
    \cup (IF risk # None THEN {"Risk"} ELSE {})
    \cup (IF scenarios # << >> THEN {"ContinuityScenario"} ELSE {})
    \cup (IF kpis # << >> THEN {"GovernanceDashboard"} ELSE {})
    \cup (IF avail # None THEN {"AvailabilityManager"} ELSE {})
    \cup (IF incidents # << >> THEN {"IncidentManager"} ELSE {})

\* the entities and their accessors, a run working on objects of one class,
\* while the clock advances
SpecAccessors ==
    Init /\ [][\/ Tick
               \/ Held \subseteq {"Incident"}
                    /\ (Incident_init \/ resolve \/ Incident_metrics)
               \/ Held \subseteq {"Service"}
                    /\ (Service_init \/ Service_register_downtime
                           \/ Service_metrics)
               \/ Held \subseteq {"Risk"}
                    /\ (Risk_init \/ add_control \/ Risk_metrics)
               \/ Held \subseteq {"ContinuityScenario"}
                    /\ (add_scenario \/ simulate \/ Scenario_metrics)
               \/ Held \subseteq {"GovernanceDashboard"}
                    /\ (add_kpi \/ Governance_metrics)]_vars

\* the objects that accumulate a list, a run working on those of one class:
\* downtime events, controls, scenarios, KPIs, monthly records, and the
\* incidents with their evaluations
SpecLists ==
    Init /\ [][\/ Held \subseteq {"Service"}
                    /\ (Service_init \/ Service_register_downtime)
               \/ Held \subseteq {"Risk"}
                    /\ (Risk_init \/ add_control)
               \/ Held \subseteq {"ContinuityScenario"}
                    /\ (add_scenario \/ simulate)
               \/ Held \subseteq {"GovernanceDashboard"}
                    /\ add_kpi
               \/ Held \subseteq {"AvailabilityManager"}
                    /\ (AvailabilityManager_init \/ record_monthly_availability)
               \/ Held \subseteq {"IncidentManager"}
                    /\ (register_incident \/ simulate_incidents
                           \/ resolve_registered \/ evaluate)]_vars

\* a dashboard of up to MaxBoardKpis KPIs
SpecBoard == Init /\ [][add_kpi_to_board]_vars

SpecReport == Init /\ [][generate_final_report]_vars

\* the fixtures: managers built with a seed, simulated batches and the
\* standard scenarios, while the clock advances
SpecFixtures ==
    Init /\ [][Tick \/ IncidentManager_init \/ simulate_incidents_seeded
                  \/ RecoverySimulator_default_scenarios]_vars

Next ==
    \/ Tick
    \/ Incident_init
    \/ resolve
    \/ close
    \/ add_note
    \/ register_incident
    \/ simulate_incidents
    \/ resolve_registered
    \/ evaluate
    \/ evaluate_batch
    \/ Risk_init
    \/ add_control
    \/ add_scenario
    \/ simulate
    \/ AvailabilityManager_init
    \/ register_downtime
    \/ record_monthly_availability
    \/ Service_init
    \/ Service_register_downtime
    \/ RecoverySimulator_init
    \/ simulate_recovery
    \/ add_kpi
    \/ Incident_metrics
    \/ Service_metrics
    \/ Risk_metrics
    \/ Scenario_metrics
    \/ Governance_metrics
    \/ IncidentManager_init
    \/ simulate_incidents_seeded
    \/ RecoverySimulator_default_scenarios
    \/ generate_final_report
    \/ add_kpi_to_board

Spec == Init /\ [][Next]_vars

-----------------------------------------------------------------------------
(* Properties *)

\* the SLA ceiling (hours) and the penalty rate (USD per hour) of a severity,
\* as the specification tabulates them
CeilingOf(sev) ==
    IF sev = "CRITICAL" THEN 1 ELSE IF sev = "HIGH" THEN 4
    ELSE IF sev = "MEDIUM" THEN 8 ELSE 24

RateOf(sev) ==
    IF sev = "CRITICAL" THEN 5000 ELSE IF sev = "HIGH" THEN 2000
    ELSE IF sev = "MEDIUM" THEN 500 ELSE 100

Resolved(i) == i.resolved_at # None
Duration(i) == i.resolved_at[1] - i.created_at
CeilingTicks(i) == CeilingOf(i.severity) * TicksPerHour
\* ticks of excess that make one cent at a rate of 1 USD per hour
TicksPerCentHour == TicksPerHour \div CentsPerUSD

StatusRank(st) == IF st = OPEN THEN 0 ELSE IF st = RESOLVED THEN 1 ELSE 2

RECURSIVE SumTo(_, _)
SumTo(f, n) == IF n = 0 THEN 0 ELSE f[n] + SumTo(f, n - 1)

\* C1: evaluate_batch on an empty list returns a summary with total_incidents
\* 0, compliance_rate_pct 0 and sla_status INCUMPLE, and does not raise.
C1_EmptyBatchReturnsSummary ==
    (result.op = "evaluate_batch" /\ result.arg = << >>) =>
        /\ result.raised = None
        /\ result.summary # None
        /\ result.summary[1].total_incidents = 0
        /\ result.summary[1].compliance_rate_pct = 0
        /\ result.summary[1].sla_status = "INCUMPLE"

\* C2: an Incident is created OPEN with no resolution time, its status only
\* moves forward Open -> Resolved -> Closed, and once CLOSED neither the
\* status nor the resolution time changes.
C2_LifecycleForwardClosedTerminal ==
    [][/\ (inc = None /\ inc' # None) =>
              (inc'[1].status = OPEN /\ inc'[1].resolved_at = None)
       /\ (inc # None) =>
              /\ StatusRank(inc'[1].status) >= StatusRank(inc[1].status)
              /\ (inc[1].status = CLOSED =>
                     /\ inc'[1].status = CLOSED
                     /\ inc'[1].resolved_at = inc[1].resolved_at)]_vars

\* C3: whenever resolved_at is set, resolved_at >= created_at, for the
\* stand-alone incident and for every incident of the manager.
C3_ResolvedNotBeforeCreated ==
    /\ (inc # None /\ Resolved(inc[1])) => Duration(inc[1]) >= 0
    /\ \A k \in 1..Len(incidents) :
          Resolved(incidents[k]) => Duration(incidents[k]) >= 0

\* the verdict of a resolved incident, from its raw fields
VerdictOf(i) ==
    IF Duration(i) <= CeilingTicks(i) THEN "Cumple SLA" ELSE "Incumple SLA"

\* C4 (as claimed): every evaluate call returns the verdict of the incident
\* and appends exactly one evaluation record.
C4_EveryCallAppendsOne ==
    [][evaluate =>
          /\ Len(evaluations') = Len(evaluations) + 1
          /\ result'.ret = (IF Resolved(result'.arg) THEN VerdictOf(result'.arg)
                            ELSE "Pendiente")]_vars

\* C4 (amended): evaluate returns Pendiente for an unresolved incident and
\* appends nothing; for a resolved incident it returns Cumple SLA exactly
\* when the duration is within the ceiling (else Incumple SLA) and appends
\* exactly one record {incident_id, severity, result, penalty_usd} with it.
C4_EvaluateVerdictAndRecord ==
    [][evaluate =>
          LET i == result'.arg
          IN  /\ \E k \in 1..Len(incidents) : incidents[k] = i
              /\ ~Resolved(i) =>
                    (result'.ret = "Pendiente" /\ evaluations' = evaluations)
              /\ Resolved(i) =>
                    /\ result'.ret = VerdictOf(i)
                    /\ evaluations' = Append(evaluations,
                          [incident_id |-> i.incident_id,
                           severity    |-> i.severity,
                           result      |-> result'.ret,
                           penalty_usd |-> penalty_usd(i)])]_vars

C4_Witness ==
    /\ result.op = "evaluate"
    /\ result.ret = "Incumple SLA"
    /\ Len(evaluations) = 1
    /\ evaluations[1].result = "Incumple SLA"
    /\ evaluations[1].penalty_usd > 0

\* C5: for a non-empty list evaluate_batch returns the list length, the
\* number of incidents meeting SLA, the rest as non-compliant, the rate
\* compliant/total*100 (to 2 decimals), the sum of the penalties, and CUMPLE
\* exactly when the rate is >= 95%; unresolved incidents are non-compliant.
C5_BatchSummary ==
    (result.op = "evaluate_batch" /\ result.arg # << >>) =>
        LET list == result.arg
            n    == Len(list)
            ok   == Cardinality({k \in 1..n : meets_sla(list[k])})
            done == Cardinality({k \in 1..n : Resolved(list[k])})
            sm   == result.summary[1]
        IN  /\ result.raised = None
            /\ sm.total_incidents = n
            /\ sm.compliant = ok
            /\ ok <= done
            /\ sm.non_compliant = n - ok
            /\ 2 * Abs(sm.compliance_rate_pct * n - ok * 100 * 100) <= n
            /\ sm.total_penalty_usd = SumTo([k \in 1..n |-> penalty_usd(list[k])], n)
            /\ sm.sla_status = "CUMPLE" <=> ok * 100 >= 95 * n
            /\ sm.sla_status \in {"CUMPLE", "INCUMPLE"}

\* 19 of 20 compliant: exactly 95%
C5_Witness ==
    /\ result.op = "evaluate_batch"
    /\ result.raised = None
    /\ result.summary[1].total_incidents = 20
    /\ result.summary[1].compliant = 19
    /\ result.summary[1].sla_status = "CUMPLE"
    /\ result.summary[1].total_penalty_usd > 0

\* C6 (as claimed): excess = max(0, duration - ceiling), penalty = excess *
\* rate (read to the cent), and penalty is 0 if and only if excess is 0.
C6_PenaltyZeroIffNoExcess ==
    (inc # None /\ Resolved(inc[1])) =>
        LET i == inc[1]
            x == excess_hours(i) * RateOf(i.severity)
        IN  /\ excess_hours(i) = Max(0, Duration(i) - CeilingTicks(i))
            /\ 2 * Abs(penalty_usd(i) * TicksPerCentHour - x) <= TicksPerCentHour
            /\ penalty_usd(i) = 0 <=> excess_hours(i) = 0

\* C6 (amended): excess = max(0, duration - ceiling); penalty is excess * rate
\* rounded to the cent; it is 0 when the excess is 0, and when it is 0 the
\* excess is worth at most half a cent.
C6_PenaltyRounded ==
    (inc # None /\ Resolved(inc[1])) =>
        LET i == inc[1]
            x == excess_hours(i) * RateOf(i.severity)
        IN  /\ sla_limit_hours(i) = CeilingOf(i.severity)
            /\ excess_hours(i) = Max(0, Duration(i) - CeilingTicks(i))
            /\ 2 * Abs(penalty_usd(i) * TicksPerCentHour - x) <= TicksPerCentHour
            /\ excess_hours(i) = 0 => penalty_usd(i) = 0
            /\ penalty_usd(i) = 0 => 2 * x <= TicksPerCentHour

\* an excess of one tick at the LOW rate rounds to no penalty
C6_Witness ==
    /\ inc # None
    /\ Resolved(inc[1])
    /\ excess_hours(inc[1]) > 0
    /\ penalty_usd(inc[1]) = 0

\* C7: a resolved Incident meets its SLA if and only if its duration is <=
\* the ceiling of its severity; resolved in exactly the ceiling it is
\* compliant with excess 0 and penalty 0.
C7_MeetsSlaIffWithinCeiling ==
    (inc # None /\ Resolved(inc[1])) =>
        LET i == inc[1]
        IN  /\ meets_sla(i) <=> Duration(i) <= CeilingTicks(i)
            /\ Duration(i) = CeilingTicks(i) =>
                  (meets_sla(i) /\ excess_hours(i) = 0 /\ penalty_usd(i) = 0)

C7_Witness ==
    /\ inc # None
    /\ Resolved(inc[1])
    /\ Duration(inc[1]) = CeilingTicks(inc[1])
    /\ meets_sla(inc[1])

\* C8: while resolved_at is unset an Incident reports no resolution time,
\* does not meet SLA and has excess 0 and penalty 0; a ContinuityScenario not
\* yet simulated meets neither RTO nor RPO.
C8_UnsetFieldsGateFalse ==
    /\ (inc # None /\ inc[1].resolved_at = None) =>
          /\ resolution_time_hours(inc[1]) = None
          /\ \A d \in {-1, 0, 1} : resolution_time_hours(inc[1]) # Some(d)
          /\ ~meets_sla(inc[1])
          /\ excess_hours(inc[1]) = 0
          /\ penalty_usd(inc[1]) = 0
    /\ \A k \in 1..Len(scenarios) :
          /\ scenarios[k].actual_rto_h = None => ~meets_rto(scenarios[k])
          /\ scenarios[k].actual_rpo_h = None => ~meets_rpo(scenarios[k])

C8_Witness ==
    /\ inc # None
    /\ inc[1].resolved_at = None
    /\ inc[1].status = CLOSED
    /\ Len(scenarios) >= 1
    /\ scenarios[1].actual_rto_h = None
    /\ scenarios[1].actual_rpo_h = None

\* 1 - (1 - e1) * (1 - e2) in 1/EffScale^2, for two controls
Complement2(e1, e2) == EffScale * EffScale - (EffScale - e1) * (EffScale - e2)
\* 1/Eff4 in 1/EffScale^2, and an effectiveness in 1/Eff4
Unit4 == (EffScale * EffScale) \div Eff4
In4(e) == e * (Eff4 \div EffScale)

TwoControlsBelowOne ==
    /\ risk # None
    /\ Len(risk[1].controls) = 2
    /\ \A k \in 1..2 : risk[1].controls[k] < EffScale

LevelOf(res) ==
    CASE res < 10000 * CentsPerUSD                                 -> "Bajo"
      [] res >= 10000 * CentsPerUSD /\ res < 30000 * CentsPerUSD   -> "Medio"
      [] res >= 30000 * CentsPerUSD /\ res < 60000 * CentsPerUSD   -> "Alto"
      [] OTHER                                                       -> "Crítico"

\* C10: residual = inherent * (1 - control effectiveness), to the cent, with
\* inherent = probability * impact, to the cent; the level is LOW below
\* 10,000, MEDIUM below 30,000, HIGH below 60,000, else CRITICAL; (0.15,
\* 60,000, no controls) gives 9,000 and LOW, (0.08, 295,000, one control
\* 0.55) gives 10,620 and MEDIUM.
C10_ResidualAndLevel ==
    risk # None =>
        LET r   == risk[1]
            inh == inherent_risk_usd(r)
            res == residual_risk_usd(r)
            k   == Eff4 - control_effectiveness(r)
        IN  /\ 2 * Abs((inh - (r.impact_usd \div ProbScale) * r.probability) * ProbScale
                       - (r.impact_usd % ProbScale) * r.probability) <= ProbScale
            /\ 2 * Abs((res - (inh \div Eff4) * k) * Eff4 - (inh % Eff4) * k) <= Eff4
            /\ risk_level(r) = LevelOf(res)
            /\ exceeds_appetite(r) <=> res > 50000 * CentsPerUSD
            /\ (r.probability = 150 /\ r.impact_usd = 6000000 /\ r.controls = << >>) =>
                  (inh = 900000 /\ res = 900000 /\ risk_level(r) = "Bajo"
                   /\ ~exceeds_appetite(r))
            /\ (r.probability = 80 /\ r.impact_usd = 29500000 /\ r.controls = <<550>>) =>
                  (inh = 2360000 /\ res = 1062000 /\ risk_level(r) = "Medio")

C10_Witness ==
    /\ risk # None
    /\ risk[1].probability = 80
    /\ risk[1].impact_usd = 29500000
    /\ risk[1].controls = <<550>>
    /\ residual_risk_usd(risk[1]) = 1062000

AnnualKeys ==
    {"avg_annual_uptime_pct", "months_compliant", "months_non_compliant",
     "non_compliant_months", "total_financial_impact", "global_status"}

ContinuityKeys ==
    {"total_scenarios", "rto_compliant", "rto_compliance_pct", "rpo_compliant",
     "rpo_compliance_pct", "total_financial_impact_usd",
     "total_residual_risk_usd", "critical_scenarios"}

\* C11: annual_summary() and continuity_summary() return the empty dict
\* exactly when no monthly record, respectively no scenario, has been added;
\* once one has been added the result is a summary with all its fields.
C11_EmptySummaryIffNothingAdded ==
    /\ avail # None =>
          \A t \in SlaTargets :
              LET summary == annual_summary(avail[1], t)
              IN  /\ (summary = EmptyDict) <=> (avail[1].monthly_records = << >>)
                  /\ summary # EmptyDict => DOMAIN summary[1] = AnnualKeys
    /\ LET summary == continuity_summary(scenarios)
       IN  /\ (summary = EmptyDict) <=> (scenarios = << >>)
           /\ summary # EmptyDict => DOMAIN summary[1] = ContinuityKeys

C11_Witness ==
    /\ avail # None
    /\ Len(avail[1].monthly_records) = 1
    /\ annual_summary(avail[1], 999000) # EmptyDict
    /\ Len(scenarios) = 1
    /\ continuity_summary(scenarios)[1].total_scenarios = 1

\* the stored uptimes of the records, in 1/Pct4, and their labels
UptimeTotal(recs) == SumSeq([i \in 1..Len(recs) |-> recs[i].uptime_pct])
FailingMonths(recs) ==
    LET failing == SelectSeq(recs, LAMBDA r : ~r.meets_sla)
    IN  [i \in 1..Len(failing) |-> failing[i].month]

\* C12 (as claimed): a call of record_monthly_availability flags the month
\* as failing exactly when its uptime is below its own target and costs it
\* hours_down * 15,000; with one or more records annual_summary(target)
\* reports the mean of the recorded uptimes (read to 4 decimals), compliant
\* and non-compliant counts that add up to the number of records, the
\* labels of the failing months in recording order, the sum of the costs,
\* and global_status CUMPLE exactly when the mean is at or above the target.
C12_AnnualSummaryAsClaimed ==
    /\ result.op = "record_monthly_availability" =>
          /\ result.value.meets_sla <=> (result.arg[2] >= result.arg[4])
          /\ result.value.financial_impact =
                 result.arg[3]
                 * ((Service_COST_PER_HOUR_USD * CentsPerUSD) \div HourArgScale)
          /\ result.value = avail[1].monthly_records[Len(avail[1].monthly_records)]
    /\ (avail # None /\ avail[1].monthly_records # << >>) =>
          \A t \in SlaTargets :
              LET recs == avail[1].monthly_records
                  n == Len(recs)
                  summary == annual_summary(avail[1], t)[1]
              IN  /\ 2 * Abs(summary.avg_annual_uptime_pct * n - UptimeTotal(recs))
                         <= n
                  /\ summary.months_compliant + summary.months_non_compliant = n
                  /\ summary.non_compliant_months = FailingMonths(recs)
                  /\ summary.months_non_compliant = Len(FailingMonths(recs))
                  /\ summary.total_financial_impact =
                         SumSeq([i \in 1..n |-> recs[i].financial_impact])
                  /\ (summary.global_status = "CUMPLE")
                         <=> (UptimeTotal(recs) >= t * n)
                  /\ summary.global_status \in {"CUMPLE", "REQUIERE_MEJORA"}

\* v is within half a unit of n / d * 100^k (d > 0), digit pair by digit pair
RECURSIVE Near(_, _, _, _)
Near(v, n, d, k) ==
    IF k = 0 THEN 2 * Abs(n - v * d) <= d
    ELSE LET a == v \div 100^k
             b == v % 100^k
             e == n - a * d
         IN  /\ 0 - d <= e
             /\ e <= d
             /\ Near(b, 100 * e, d, k - 1)

\* C13: the baseline of an AvailabilityManager is never 0, so
\* calculate_availability() never divides by zero; it returns
\* (total_minutes - registered downtime) / total_minutes * 100 to 4 decimals
\* (99.7222 for 43,200 and 120), and evaluate_sla(target) is true exactly when
\* that value is at or above the target.
C13_AvailabilityOfPeriod ==
    avail # None =>
        LET self == avail[1]
            r == calculate_availability(self)
        IN  /\ self.total_minutes # 0
            /\ r.raised = None
            /\ Near(r.value, 100 * (self.total_minutes - self.downtime_minutes),
                    self.total_minutes, 2)
            /\ (self.total_minutes = 43200 * MinuteScale
                /\ self.downtime_minutes = 120 * MinuteScale)
                   => r.value = 997222
            /\ \A t \in SlaTargets : evaluate_sla(self, t) <=> (r.value >= t)

C13_Witness ==
    /\ avail # None
    /\ avail[1].total_minutes = 43200 * MinuteScale
    /\ avail[1].downtime_minutes = 432
    /\ calculate_availability(avail[1]).value = 999000
    /\ evaluate_sla(avail[1], 999000)
    /\ ~evaluate_sla(avail[1], 999500)

\* C14: Service.availability(total_hours) is 100 when total_hours is 0 and
\* otherwise (total_hours - total downtime hours) / total_hours * 100 to 4
\* decimals; meets_sla(total_hours) holds exactly when that availability is
\* at or above the service's target; total_financial_impact() is the sum of
\* the event costs, each the event's duration * 15,000 to the cent.
C14_ServiceAvailability ==
    service # None =>
        LET self == service[1]
            events == self.downtime_events
            down == SumTo([i \in 1..Len(events) |-> events[i].duration_h],
                          Len(events))
        IN  /\ \A k \in 1..Len(events) :
                  LET seconds == (events[k].end - events[k].start)
                                     \div TicksPerSecond
                  IN  /\ 2 * Abs(9 * events[k].duration_h - 25 * seconds) <= 9
                      /\ 2 * Abs(3 * events[k].cost_usd - 1250 * seconds) <= 3
            /\ total_financial_impact(self) =
                   SumTo([i \in 1..Len(events) |-> events[i].cost_usd],
                         Len(events))
            /\ \A total_hours \in TotalHours :
                  LET a == availability(self, total_hours)
                  IN  /\ total_hours = 0 => a = 100 * Hour4
                      /\ total_hours # 0 =>
                             Near(a, 100 * (total_hours - down), total_hours, 2)
                      /\ Service_meets_sla(self, total_hours)
                             <=> (a >= self.sla_availability_pct)

C14_Witness ==
    /\ service # None
    /\ service[1].sla_availability_pct = 999000
    /\ Len(service[1].downtime_events) = 1
    /\ service[1].downtime_events[1].duration_h = 7300
    /\ availability(service[1], 730 * Hour4) = 999000
    /\ Service_meets_sla(service[1], 730 * Hour4)
    /\ ~Service_meets_sla(service[1], 1 * Hour4)
    /\ availability(service[1], 0) = 100 * Hour4
    /\ total_financial_impact(service[1]) = 10950 * CentsPerUSD

\* C15 (as claimed): a simulator built with rto_minutes has the ceiling
\* rto_minutes / 60 hours (also when rto_hours is given too, and when
\* rto_minutes is 0), one built without it the ceiling rto_hours; and
\* simulate_recovery(actual_minutes) answers "within RTO" exactly when
\* actual_minutes is at or below the ceiling in minutes, boundary included,
\* leaving the scenario list as it was.
C15_WithinRtoIffAtOrBelowCeiling ==
    /\ rto_hours = RtoCeiling(rto_args.rto_minutes, rto_args.rto_hours)
    /\ rto_args.rto_minutes = Some(0) => rto_hours.m = << >>
    /\ result.op = "simulate_recovery" =>
          /\ result.value
                 \in {"Recuperación dentro del RTO", "Incumplimiento del RTO"}
          /\ (result.value = "Recuperación dentro del RTO")
                 <=> IF rto_args.rto_minutes # None
                     THEN result.arg <= rto_args.rto_minutes[1]
                     ELSE result.arg * HourScale
                              <= rto_args.rto_hours * MinutesPerHour

\* the position of the scenario with the given id
PositionOf(id) == CHOOSE k \in 1..Len(scenarios) : scenarios[k].scenario_id = id

\* C16: with one or more scenarios continuity_summary() reports their
\* number, the numbers of scenarios meeting RTO and RPO and those as
\* percentages to 1 decimal, the sums of the financial impacts and of the
\* residual risks, and as critical_scenarios the ids of exactly the
\* scenarios not meeting RTO, in insertion order; rto_compliant plus the
\* number of critical scenarios is the total.
C16_ContinuitySummary ==
    scenarios # << >> =>
        LET summary == continuity_summary(scenarios)[1]
            n == Len(scenarios)
            rto == {k \in 1..n : meets_rto(scenarios[k])}
            rpo == {k \in 1..n : meets_rpo(scenarios[k])}
            critical == summary.critical_scenarios
        IN  /\ summary.total_scenarios = n
            /\ summary.rto_compliant = Cardinality(rto)
            /\ summary.rpo_compliant = Cardinality(rpo)
            /\ 2 * Abs(summary.rto_compliance_pct * n
                       - 100 * Pct1 * Cardinality(rto)) <= n
            /\ 2 * Abs(summary.rpo_compliance_pct * n
                       - 100 * Pct1 * Cardinality(rpo)) <= n
            /\ summary.total_financial_impact_usd =
                   SumTo([k \in 1..n |-> financial_impact_usd(scenarios[k])], n)
            /\ summary.total_residual_risk_usd =
                   SumTo([k \in 1..n |-> scenario_residual_risk_usd(scenarios[k])],
                         n)
            /\ {critical[i] : i \in 1..Len(critical)} =
                   {scenarios[k].scenario_id : k \in (1..n) \ rto}
            /\ \A i, j \in 1..Len(critical) :
                   i < j => PositionOf(critical[i]) < PositionOf(critical[j])
            /\ summary.rto_compliant + Len(critical) = n

C16_Witness ==
    /\ Len(scenarios) = 2
    /\ scenarios[1].actual_rto_h = Some(401)
    /\ scenarios[2].actual_rto_h = None
    /\ scenarios[2].actual_rpo_h = None
    /\ continuity_summary(scenarios)[1].critical_scenarios = <<1, 2>>
    /\ continuity_summary(scenarios)[1].rto_compliance_pct = 0
    /\ continuity_summary(scenarios)[1].total_financial_impact_usd
           = 60150 * CentsPerUSD

\* the positions of the KPIs in ALERTA and in OK, by the rule of C20, and
\* the position of the i-th KPI in ALERTA
InAlert(k) ==
    IF k.higher_is_better THEN k.value < k.threshold ELSE k.value > k.threshold
AlertPositions == {p \in 1..Len(kpis) : InAlert(kpis[p])}
OkPositions == (1..Len(kpis)) \ AlertPositions
NthAlert(i) ==
    CHOOSE p \in AlertPositions :
        Cardinality({q \in AlertPositions : q < p}) = i - 1

\* C17: governance_status() is CONFORME exactly when no KPI is in ALERTA,
\* OBSERVACIÓN exactly when at least one and at most the tolerated number
\* (1) are, and NO CONFORME exactly when more are; alerts() returns exactly
\* the KPIs in ALERTA, in insertion order.
C17_GovernanceStatus ==
    LET n == Cardinality(AlertPositions)
        st == governance_status(kpis)
    IN  /\ (st = "CONFORME") <=> (n = 0)
        /\ (st = "OBSERVACIÓN") <=> (1 <= n /\ n <= 1)
        /\ (st = "NO CONFORME") <=> (n > 1)
        /\ Len(alerts(kpis)) = n
        /\ \A i \in 1..n : alerts(kpis)[i] = kpis[NthAlert(i)]

C17_Witness ==
    /\ Len(kpis) = 4
    /\ AlertPositions = {2, 4}
    /\ kpis[2] # kpis[4]
    /\ governance_status(kpis) = "NO CONFORME"
    /\ alerts(kpis) = <<kpis[2], kpis[4]>>

\* C18: maturity_level() returns the score round(OK KPIs / total * 5), the
\* nearest integer with a tie going to the even one, between 0 and 5, with
\* its label (0 Inexistente, 1 Inicial, 2 Gestionado, 3 Definido,
\* 4 Cuantitativamente Gestionado, 5 Optimizado); without KPIs it returns
\* (0, Inexistente).
C18_MaturityLevel ==
    LET ok == Cardinality(OkPositions)
        total == Len(kpis)
        score == maturity_level(kpis)[1]
        label == maturity_level(kpis)[2]
    IN  /\ score \in 0..5
        /\ total = 0 => (score = 0 /\ label = "Inexistente")
        /\ total > 0 =>
              /\ 2 * Abs(score * total - 5 * ok) <= total
              /\ 2 * Abs(score * total - 5 * ok) = total => score % 2 = 0
        /\ label = <<"Inexistente", "Inicial", "Gestionado", "Definido",
                     "Cuantitativamente Gestionado", "Optimizado">>[score + 1]
        /\ Len(maturity_level(kpis)) = 2

C18_Witness ==
    /\ Len(kpis) = 2
    /\ Cardinality(OkPositions) = 1
    /\ maturity_level(kpis) = <<2, "Gestionado">>

\* C19: committee_decision() returns one "action required" string for each
\* KPI in ALERTA, in insertion order, citing its name and its value and
\* threshold to 2 decimals, and a single "no action pending" string when no
\* KPI is in ALERTA; its length is max(1, number of alerts).
C19_CommitteeDecision ==
    LET n == Cardinality(AlertPositions)
        decisions == committee_decision(kpis)
    IN  /\ Len(decisions) = Max(1, n)
        /\ n = 0 => decisions = <<<<"Sin acciones correctivas pendientes">>>>
        /\ \A i \in 1..n :
              LET k == kpis[NthAlert(i)]
              IN  /\ Len(decisions[i]) = 4
                  /\ decisions[i][1] = "ACCIÓN REQUERIDA"
                  /\ decisions[i][2] = k.name
                  /\ 2 * Abs(100 * decisions[i][3] - k.value) <= 100
                  /\ 2 * Abs(100 * decisions[i][4] - k.threshold) <= 100

C19_Witness ==
    /\ Len(kpis) = 3
    /\ AlertPositions = {1, 3}
    /\ committee_decision(kpis) =
           << <<"ACCIÓN REQUERIDA", "Disponibilidad", 9988, 9990>>,
              <<"ACCIÓN REQUERIDA", "Brechas", 100, 0>> >>

\* C20: a KPI is OK exactly when its value is at or above the threshold if
\* higher is better, at or below it otherwise (equality is OK both ways),
\* and ALERTA else; gap() is value - threshold; gap_pct() is gap / threshold
\* * 100 to 2 decimals, and 0 when the threshold is 0.
C20_KpiStatusAndGap ==
    \A p \in 1..Len(kpis) :
        LET k == kpis[p]
        IN  /\ status(k) \in {"OK", "ALERTA"}
            /\ (status(k) = "OK")
                   <=> IF k.higher_is_better THEN k.value >= k.threshold
                       ELSE k.value <= k.threshold
            /\ gap(k) + k.threshold = k.value
            /\ k.threshold = 0 => gap_pct(k) = 0
            /\ k.threshold # 0 => Near(gap_pct(k), gap(k), k.threshold, 2)

C20_Witness ==
    /\ Len(kpis) = 4
    /\ kpis[1].value = kpis[1].threshold /\ kpis[1].higher_is_better
    /\ status(kpis[1]) = "OK"
    /\ kpis[2].value = kpis[2].threshold /\ ~kpis[2].higher_is_better
    /\ status(kpis[2]) = "OK"
    /\ kpis[3].threshold = 0 /\ status(kpis[3]) = "ALERTA"
    /\ gap_pct(kpis[3]) = 0
    /\ kpis[4].name = "Satisfacción Cliente"
    /\ gap(kpis[4]) = 23000
    /\ gap_pct(kpis[4]) = 288

\* C21: for every Incident, the SLA flag re-derived from the fields of
\* to_dict() (resolution_time_h present and <= sla_limit_h) equals the
\* dictionary's meets_sla and the entity's meets_sla(), and resolution_time_h
\* is None exactly when the incident is unresolved.
C21_DictRederivesSlaFlag ==
    inc # None =>
        LET d == to_dict(inc[1])
            rederived == /\ d.resolution_time_h # None
                         /\ d.resolution_time_h[1] <= d.sla_limit_h * Hour4
        IN  /\ rederived = d.meets_sla
            /\ d.meets_sla = meets_sla(inc[1])
            /\ (d.resolution_time_h = None) <=> ~Resolved(inc[1])

MetricClasses ==
    {"Incident", "Service", "Risk", "ContinuityScenario", "GovernanceDashboard"}

\* C22: a call of the derived-metric accessors of an Incident, Service, Risk,
\* ContinuityScenario, KPI or GovernanceDashboard changes nothing but the
\* value returned, and as long as no operation changes the object a further
\* call returns the value the earlier call returned.
C22_AccessorsLeaveStateUnchanged ==
    [][/\ (result' # result /\ result'.op = "metrics") =>
              UNCHANGED <<now, inc, counter, incidents, evaluations, risk,
                          scenarios, avail, service, rto_hours, rto_args, kpis,
                          rng, fixtures>>
       /\ (result'.op = "metrics"
              /\ UNCHANGED <<inc, service, risk, scenarios, kpis>>) =>
              \A c \in MetricClasses, a \in {None} \cup {Some(h) : h \in TotalHours} :
                  (result'.class = c /\ result'.arg = a) =>
                      result'.value = DerivedMetrics(c, a)']_vars

\* the accessors were called on a resolved incident that pays a penalty, some
\* time after it was created
C22_Witness ==
    /\ result.op = "metrics"
    /\ result.class = "Incident"
    /\ Resolved(inc[1])
    /\ result.value.penalty_usd > 0
    /\ ~result.value.meets_sla
    /\ now > inc[1].created_at

\* C23: fixture generation is deterministic in the seed: two generations of
\* the same kind from the same seed, generator position, counter and count
\* (IncidentManager(seed) followed by simulate_incidents(n), or
\* default_scenarios(seed)) yield the same entities (identifiers, severities,
\* client counts, creation and resolution times, actual RTO and RPO), and the
\* numbers are drawn in the order the fixtures declare them.
C23_SameSeedSameFixtures ==
    /\ Len(fixtures) = 2 =>
          LET a == fixtures[1]
              b == fixtures[2]
          IN  (a.op = b.op /\ a.seed = b.seed /\ a.drawn = b.drawn
                 /\ a.counter = b.counter /\ a.n = b.n) => a.out = b.out
    /\ \A i \in 1..Len(fixtures) :
          LET f == fixtures[i]
              u(k) == random(f.seed, f.drawn + k)
          IN  /\ f.op = "default_scenarios" =>
                    /\ Len(f.out) = 5
                    /\ f.out[1].entity.actual_rto_h = Some(uniform(u(0), 250, 650))
                    /\ f.out[2].entity.actual_rpo_h = Some(uniform(u(3), 100, 400))
                    /\ f.out[3].clients_affected = uniform(u(4), 1500, 3001)
                    /\ f.out[4].entity.actual_rto_h = Some(uniform(u(8), 50, 300))
                    /\ f.out[5].entity.actual_rto_h = Some(uniform(u(10), 50, 250))
              /\ f.op = "simulate_incidents" =>
                    /\ Len(f.out) = f.n
                    /\ \A k \in 1..f.n :
                          LET e == f.out[k].entity
                          IN  /\ e.incident_id = next_id(f.counter + k - 1)
                              /\ e.created_at = BaseTime
                                    + uniform(u(7 * (k - 1) + 4), 1, 701) * TicksPerHour
                              /\ (e.severity = "CRITICAL") <=>
                                    (100 * u(7 * (k - 1)) < 10 * RandomRange)

\* two batches of two incidents were simulated by managers built with seed
\* 42, at different clock readings
C23_Witness ==
    /\ Len(fixtures) = 2
    /\ \A i \in 1..2 :
          /\ fixtures[i].op = "simulate_incidents"
          /\ fixtures[i].seed = 42
          /\ fixtures[i].drawn = 0
          /\ fixtures[i].counter = 1
          /\ fixtures[i].n = 2
    /\ now > StartTime
    /\ incidents = [k \in 1..2 |-> fixtures[2].out[k].entity]

\* C24: run_all() completes without raising and returns one dictionary per
\* scenario, in insertion order, for every list add_scenario can build; for a
\* scenario not yet simulated the dictionary has meets_rto and meets_rpo False
\* and no actual RTO/RPO.
C24_RunAllReturnsOneDictPerScenario ==
    LET r == run_all(scenarios)
    IN  /\ r.raised = None
        /\ Len(r.value) = Len(scenarios)
        /\ \A i \in 1..Len(scenarios) :
              /\ r.value[i].scenario_id = scenarios[i].scenario_id
              /\ scenarios[i].actual_rto_h = None =>
                    /\ ~r.value[i].meets_rto
                    /\ ~r.value[i].meets_rpo
                    /\ r.value[i].actual_rto_h = None
                    /\ r.value[i].actual_rpo_h = None

\* the positions of the incidents of one severity, and of the resolved ones
OfSeverity(sev) == {k \in 1..Len(incidents) : incidents[k].severity = sev}
ResolvedOf(sev) == {k \in OfSeverity(sev) : Resolved(incidents[k])}

RECURSIVE SumOver(_, _)
SumOver(f, S) ==
    IF S = {} THEN 0
    ELSE LET k == CHOOSE x \in S : TRUE IN f[k] + SumOver(f, S \ {k})

\* C25: compliance_by_severity(incidents) has one entry per severity of the
\* list, with total the number of incidents of that severity, compliant the
\* number meeting SLA, pct = compliant / total * 100, penalty_usd the sum of
\* their penalties and avg_time_h the mean resolution time of the group's
\* resolved incidents; totals and compliant counts add up to the list length
\* and to the compliant count of evaluate_batch.
C25_ComplianceBySeverity ==
    LET b == compliance_by_severity(incidents)
        dur == [k \in 1..Len(incidents) |->
                  IF Resolved(incidents[k]) THEN Duration(incidents[k]) ELSE 0]
        pen == [k \in 1..Len(incidents) |-> penalty_usd(incidents[k])]
    IN  /\ DOMAIN b = {sev \in Severity : OfSeverity(sev) # {}}
        /\ \A sev \in DOMAIN b :
              /\ b[sev].total = Cardinality(OfSeverity(sev))
              /\ b[sev].compliant =
                    Cardinality({k \in OfSeverity(sev) : meets_sla(incidents[k])})
              /\ b[sev].pct = RoundDiv(b[sev].compliant * 100 * 100, b[sev].total)
              /\ b[sev].penalty_usd = SumOver(pen, OfSeverity(sev))
              /\ ResolvedOf(sev) # {} =>
                    b[sev].avg_time_h =
                        PctRound(SumOver(dur, ResolvedOf(sev)),
                                 Cardinality(ResolvedOf(sev)) * TicksPerHour, 1)
        /\ SumOver([sev \in DOMAIN b |-> b[sev].total], DOMAIN b) = Len(incidents)
        /\ SumOver([sev \in DOMAIN b |-> b[sev].compliant], DOMAIN b)
              = CountCompliant(incidents)

\* the accumulating lists; incidents and scenarios, which are changed in
\* place, by their identifiers
Lists ==
    [downtime_events |-> IF service = None THEN << >>
                         ELSE service[1].downtime_events,
     controls        |-> IF risk = None THEN << >> ELSE risk[1].controls,
     scenarios       |-> [k \in 1..Len(scenarios) |-> scenarios[k].scenario_id],
     kpis            |-> kpis,
     evaluations     |-> evaluations,
     monthly_records |-> IF avail = None THEN << >>
                         ELSE avail[1].monthly_records,
     incidents       |-> [k \in 1..Len(incidents) |-> incidents[k].incident_id]]

IsPrefix(a, b) == Len(a) <= Len(b) /\ SubSeq(b, 1, Len(a)) = a

\* the step appends one element to list l and leaves the other lists alone
AppendsOneTo(l) ==
    /\ Len(Lists'[l]) = Len(Lists[l]) + 1
    /\ \A m \in DOMAIN Lists \ {l} : Lists'[m] = Lists[m]

Given(d, key) == IF d = EmptyDict THEN None ELSE Some(d[1][key])

\* C27: the integrated maturity score of generate_final_report is the number
\* of criteria met among five (mean annual uptime >= 99.9, SLA compliance
\* >= 90, COBIT maturity >= 3, RTO compliance >= 60, SLA compliance >= 80), is
\* in 0..5 with the label of the fixed table, and a criterion whose summary
\* is {} is not met.
C27_IntegratedMaturityScore ==
    result.op = "generate_final_report" =>
        LET a == result.arg
            uptime == Given(a.availability_summary, "avg_annual_uptime_pct")
            rate   == Given(a.sla_summary, "compliance_rate_pct")
            level  == Given(a.dashboard_data, "maturity_level")
            rto    == Given(a.continuity_summary, "rto_compliance_pct")
            n == (IF uptime # None /\ uptime[1] * 10 >= 999 * Pct4 THEN 1 ELSE 0)
               + (IF rate # None /\ rate[1] >= 9000 THEN 1 ELSE 0)
               + (IF level # None /\ level[1] >= 3 THEN 1 ELSE 0)
               + (IF rto # None /\ rto[1] >= 60 * Pct1 THEN 1 ELSE 0)
               + (IF rate # None /\ rate[1] >= 8000 THEN 1 ELSE 0)
        IN  /\ result.value.maturity_score = n
            /\ n \in 0..5
            /\ result.value.maturity_desc =
                  <<"Inexistente", "Inicial", "Gestionado", "Definido",
                    "Cuantitativamente Gestionado", "Optimizado">>[n + 1]

\* every criterion is met exactly at its threshold except the SLA rate, which
\* is between 80 and 90: score 4
C27_Witness ==
    /\ result.op = "generate_final_report"
    /\ result.arg.availability_summary = Some([avg_annual_uptime_pct |-> 999000])
    /\ result.arg.sla_summary = Some([compliance_rate_pct |-> 8999])
    /\ result.arg.dashboard_data = Some([maturity_level |-> 3])
    /\ result.arg.continuity_summary = Some([rto_compliance_pct |-> 600])
    /\ result.value.maturity_score = 4

\* C28: for a dashboard holding at least one KPI, maturity_level() reports
\* score 5 if and only if governance_status() is "CONFORME": the top
\* maturity level is never reported while some KPI is in ALERTA.
C28_TopMaturityIffConforme ==
    kpis # << >> =>
        (maturity_level(kpis)[1] = 5 <=> governance_status(kpis) = "CONFORME")

\* C29: each add_control call (effectiveness in [0,1], probability and
\* impact >= 0) never decreases control_effectiveness() and never increases
\* residual_risk_usd(); control_effectiveness() stays within [0,1] and
\* 0 <= residual_risk_usd() <= inherent_risk_usd() in every reachable state.
C29_ControlsOnlyReduceRisk ==
    [][/\ (risk # None /\ risk' # None /\ risk' # risk) =>
            /\ Len(risk'[1].controls) = Len(risk[1].controls) + 1
            /\ control_effectiveness(risk'[1]) >= control_effectiveness(risk[1])
            /\ residual_risk_usd(risk'[1]) <= residual_risk_usd(risk[1])
       /\ risk' # None =>
            /\ control_effectiveness(risk'[1]) \in 0..Eff4
            /\ residual_risk_usd(risk'[1]) \in 0..inherent_risk_usd(risk'[1])]_vars

\* a second control (0.55 after 0.40) raised the combined effectiveness to
\* 0.73 and lowered the residual risk
C29_Witness ==
    /\ risk # None
    /\ risk[1].controls = <<400, 550>>
    /\ LET before == [risk[1] EXCEPT !.controls = <<400>>]
       IN  /\ control_effectiveness(before) = 4000
           /\ control_effectiveness(risk[1]) = 7300
           /\ residual_risk_usd(risk[1]) < residual_risk_usd(before)
           /\ residual_risk_usd(before) < inherent_risk_usd(before)

\* C30: after any register_incident and simulate_incidents calls on one
\* IncidentManager the identifiers are pairwise distinct and are
\* INC-2024-001, INC-2024-002, ... in registration order, the counter is the
\* number of incidents plus 1, every incident created by simulate_incidents
\* is RESOLVED with resolved_at later than created_at, and get_open_incidents()
\* returns only incidents registered directly and never resolved.
C30_IncidentRegistry ==
    [][LET old == incidents
           new == incidents'
       IN  /\ \A i \in 1..Len(new) :
                  new[i].incident_id =
                      <<"INC-2024-", i \div 100, (i \div 10) % 10, i % 10>>
           /\ \A i, j \in 1..Len(new) :
                  i # j => new[i].incident_id # new[j].incident_id
           /\ counter' = Len(new) + 1
           /\ result'.op = "simulate_incidents" =>
                  \A k \in (Len(old) + 1)..Len(new) :
                      /\ new[k].status = RESOLVED
                      /\ new[k].resolved_at # None
                      /\ new[k].resolved_at[1] > new[k].created_at
           /\ LET open == get_open_incidents(new)
              IN  \A o \in 1..Len(open) :
                      /\ open[o].resolved_at = None
                      /\ \E i \in 1..Len(new) :
                            /\ new[i] = open[o]
                            /\ \/ i <= Len(old) /\ old[i].status = OPEN
                               \/ i > Len(old) /\ result'.op = "register_incident"
      ]_vars

\* a registered incident still open, followed by a simulated one
C30_Witness ==
    /\ Len(incidents) = 2
    /\ counter = 3
    /\ result.op = "simulate_incidents"
    /\ incidents[1].status = OPEN /\ incidents[1].created_at >= StartTime
    /\ incidents[2].incident_id = <<"INC-2024-", 0, 0, 2>>
    /\ incidents[2].status = RESOLVED
    /\ incidents[2].resolved_at[1] > incidents[2].created_at
    /\ get_open_incidents(incidents) = <<incidents[1]>>

====
